---- MODULE Spec2Model ----
(***************************************************************************)
(* Model of scripts/generate_damage_matrix.py: the MiniYAML parser         *)
(* (parse_miniyaml) and the inheritance resolver (resolve_inherits,        *)
(* deep_merge, deep_copy_dict).                                            *)
(*                                                                         *)
(* Python dicts are objects with identity, so they live in a heap: a       *)
(* sequence of ordered dicts, the address of a dict being its index.  A    *)
(* dict is the sequence of its entries in insertion order.  An entry is    *)
(*   [k |-> key, isd |-> is the value a dict, s |-> the string value,      *)
(*    ref |-> the address of the dict value]                               *)
(* A key is the sequence of its characters, so that startswith and [1:]    *)
(* are computed as Python computes them; every other string (names,       *)
(* values, lines of text) is a character sequence too.                     *)
(***************************************************************************)
EXTENDS Integers, Sequences, FiniteSets, TLC

VARIABLES
    heap,       \* all dict objects: raw nodes, results under construction, cached results
    defs,       \* `definitions`: name -> address of the raw node
    rawLen,     \* number of dict objects the parser created for `definitions`
    cache,      \* `resolved_cache`: name -> address of the resolved definition
    merged,     \* name -> the addresses its recursive calls returned (`parent_resolved`), 0 for {}
    resolving,  \* `resolving`: names of the resolutions in progress
    stack,      \* the activation records of resolve_inherits, outermost first
    status,     \* "idle" | "running" | the exception raised
    callName,   \* the name passed to the latest top-level call
    ret,        \* the address returned by the latest top-level call (0: none yet)
    recording,  \* is the first result on a fresh cache kept for comparison
    freshCall,  \* was the cache empty when the latest top-level call was made
    firstFresh, \* name and value of the first top-level result on a fresh cache
    \* parse_miniyaml
    lines,      \* the lines of `text` the loop has consumed
    nodes,      \* the dicts parse_miniyaml created; `root` is at address 1
    pstack,     \* `stack`: [depth, node] of the open ancestors, innermost last
    parentOf,   \* per consumed line: the address of `parent`, 0 for a skipped line
    nodeOf,     \* per consumed line: the address of `child`, 0 for a skipped line
    \* the attribute extractor
    store,      \* the dicts of the resolved unit and weapon definitions
    unitId,     \* `unit_id`
    unitDef,    \* `unit_def`: the address of the unit's resolved definition
    weapons,    \* `weapons`: weapon name -> address of its resolved definition
    out,        \* the latest call of the extractor: [op, arg, res]
    \* RewardVectorComputer
    tracker,    \* `self._state`: the RewardVectorState
    obs,        \* the observation of the latest compute call since construction or reset
    vector,     \* the RewardVector that call returned
    newState,   \* `_state` of a computer constructed when this one was constructed or last
                \* reset, and called with the same observations since
    newVector,  \* the RewardVector its latest compute call returned
    discarded,  \* did the state the latest reset replaced hold memories of its episode
    seenTypes,  \* the enemy building types visible in the compute calls since construction or reset
    \* OpenRABenchRubric
    trajectory, \* `_trajectory` of each of the four child rubrics
    returned,   \* what the latest call of the rubric since construction or reset returned
    composite   \* the latest call of compute_composite_score_from_games: [obs, score]

rvars == <<heap, defs, rawLen, cache, merged, resolving, stack, status, callName, ret, recording, freshCall, firstFresh>>

pvars == <<lines, nodes, pstack, parentOf, nodeOf>>

evars == <<store, unitId, unitDef, weapons, out>>

wvars == <<tracker, obs, vector, newState, newVector, discarded, seenTypes>>

bvars == <<trajectory, returned, composite>>

vars == <<rvars, pvars, evars, wvars, bvars>>

\* no OpenRABenchRubric constructed
RubricIdle == trajectory = << >> /\ returned = << >> /\ composite = << >>

\* no call made yet
NoCall == [op |-> "none", arg |-> << >>, res |-> << >>, exc |-> ""]

\* the extractor is not in use
ExtractorIdle ==
    /\ store = << >> /\ unitId = << >> /\ unitDef = 0 /\ weapons = << >> /\ out = NoCall

\* no RewardVectorComputer constructed
RewardIdle ==
    /\ tracker = << >> /\ obs = << >> /\ vector = << >>
    /\ newState = << >> /\ newVector = << >> /\ discarded = << >> /\ seenTypes = {}

----------------------------------------------------------------------------
(* Keys, as character sequences *)

INHERITS == <<"I", "n", "h", "e", "r", "i", "t", "s">>
VALUE_KEY == <<"_", "_", "v", "a", "l", "u", "e", "_", "_">>
REMOVAL == <<"-">>

EMPTY == << >>

nA == <<"A">>
nB == <<"B">>
nC == <<"C">>

kInherits2 == INHERITS \o <<"@", "2">>
kInherits3 == INHERITS \o <<"@", "3">>
kF == <<"f">>
kG == <<"g">>
kH == <<"h">>
kJ == <<"j">>
kRemF == <<"-", "f">>
kRemRemF == <<"-", "-", "f">>

\* str.startswith
StartsWith(k, p) == Len(k) >= Len(p) /\ SubSeq(k, 1, Len(p)) = p

\* removal_key[1:]
StripFirst(k) == SubSeq(k, 2, Len(k))

----------------------------------------------------------------------------
(* Ordered dicts *)

ScalarEntry(k, s) == [k |-> k, isd |-> FALSE, s |-> s, ref |-> 0]
DictEntry(k, a) == [k |-> k, isd |-> TRUE, s |-> EMPTY, ref |-> a]

DictKeys(d) == {d[i].k : i \in 1..Len(d)}
DictHas(d, k) == k \in DictKeys(d)
DictIndex(d, k) == CHOOSE i \in 1..Len(d) : d[i].k = k
DictGet(d, k) == d[DictIndex(d, k)]

\* d[k] = e: an existing key keeps its position, a new key goes last
DictSet(d, e) ==
    IF DictHas(d, e.k) THEN [d EXCEPT ![DictIndex(d, e.k)] = e]
    ELSE Append(d, e)

\* a value: the string s, or the dict at address ref
Str(s) == [isd |-> FALSE, s |-> s, ref |-> 0]
DictAt(a) == [isd |-> TRUE, s |-> EMPTY, ref |-> a]

\* d[k], the value of the entry e
ValueOfEntry(e) == [isd |-> e.isd, s |-> e.s, ref |-> e.ref]

\* the outcome of a call: the value returned, or the exception raised
Returns(v) == [exc |-> "", res |-> v]
Raises(x) == [exc |-> x, res |-> << >>]

\* bool(d) for the dict at address a, 0 being a new {}
Truthy(h, a) == a > 0 /\ Len(h[a]) > 0

\* bool(v) for the value v
IsTrue(h, v) == IF v.isd THEN Truthy(h, v.ref) ELSE v.s # EMPTY

\* d.get("__value__", "") for the dict at address a
ValueAt(h, a) ==
    IF DictHas(h[a], VALUE_KEY) THEN ValueOfEntry(DictGet(h[a], VALUE_KEY)) ELSE Str(EMPTY)

\* d.pop(k, None)
DictPop(d, k) ==
    IF DictHas(d, k)
    THEN LET i == DictIndex(d, k) IN SubSeq(d, 1, i - 1) \o SubSeq(d, i + 1, Len(d))
    ELSE d

----------------------------------------------------------------------------
(* deep_copy_dict and deep_merge, on the heap.  Both return the new heap;  *)
(* deep_copy_dict also returns the address of the copy.                    *)

RECURSIVE deep_copy_dict(_, _)
RECURSIVE CopyEntries(_, _, _, _)
RECURSIVE deep_merge(_, _, _)
RECURSIVE MergeEntries(_, _, _, _)
RECURSIVE MergeEntriesKeepInherits(_, _, _, _)

\* the loop of deep_copy_dict over d.items(), from entry i on; na is `result`
CopyEntries(h, a, i, na) ==
    IF i > Len(h[a]) THEN h
    ELSE LET e == h[a][i] IN
         IF e.isd
         THEN LET r == deep_copy_dict(h, e.ref) IN
              CopyEntries([r.h EXCEPT ![na] = DictSet(@, DictEntry(e.k, r.a))], a, i + 1, na)
         ELSE CopyEntries([h EXCEPT ![na] = DictSet(@, e)], a, i + 1, na)

deep_copy_dict(h, a) ==
    LET h1 == Append(h, <<>>)
        na == Len(h1)
    IN [h |-> CopyEntries(h1, a, 1, na), a |-> na]

\* target[key] = val, without the deep copy
StoreRef(h, t, e) == [h EXCEPT ![t] = DictSet(@, e)]

\* target[key] = deep_copy_dict(val) if isinstance(val, dict) else val
StoreCopy(h, t, e) ==
    IF e.isd
    THEN LET r == deep_copy_dict(h, e.ref) IN
         [r.h EXCEPT ![t] = DictSet(@, DictEntry(e.k, r.a))]
    ELSE [h EXCEPT ![t] = DictSet(@, e)]

\* the loop of deep_merge without `if key.startswith("Inherits"): continue`
MergeEntriesKeepInherits(h, t, s, i) ==
    IF i > Len(h[s]) THEN h
    ELSE LET e == h[s][i] IN
         IF DictHas(h[t], e.k) /\ DictGet(h[t], e.k).isd /\ e.isd
         THEN MergeEntriesKeepInherits(deep_merge(h, DictGet(h[t], e.k).ref, e.ref), t, s, i + 1)
         ELSE MergeEntriesKeepInherits(StoreCopy(h, t, e), t, s, i + 1)

\* the loop of deep_merge over source.items(), from entry i on
MergeEntries(h, t, s, i) ==
    IF i > Len(h[s]) THEN h
    ELSE LET e == h[s][i] IN
         IF StartsWith(e.k, INHERITS)
         THEN MergeEntries(h, t, s, i + 1)
         ELSE IF DictHas(h[t], e.k) /\ DictGet(h[t], e.k).isd /\ e.isd
         THEN MergeEntries(deep_merge(h, DictGet(h[t], e.k).ref, e.ref), t, s, i + 1)
         ELSE MergeEntries(StoreCopy(h, t, e), t, s, i + 1)

deep_merge(h, t, s) == MergeEntries(h, t, s, 1)

----------------------------------------------------------------------------
(* parse_miniyaml, one iteration of its loop over text.splitlines() per    *)
(* step                                                                     *)

TAB == "\t"
COMMENT == "#"
COLON == ":"
\* the characters str.strip() removes (str.isspace), among those a string of
\* the model can hold: the characters up to U+00FF.  Of these a line of
\* text.splitlines() can hold TAB, U+001F, the space and U+00A0.
Whitespace == {TAB, "\n", "", "\f", "\r", "", "", "", "", " ", "", " "}

\* the characters int() accepts around the number
IntWhitespace == {TAB, "\n", "", "\f", "\r", " ", "", " "}

\* Bounds of the texts explored
MaxLines == 3
MaxIndent == 2

\* line.lstrip("\t")
RECURSIVE LStripTabs(_)
LStripTabs(line) ==
    IF line # << >> /\ Head(line) = TAB THEN LStripTabs(Tail(line)) ELSE line

\* str without its leading and its trailing characters of the set chars
RECURSIVE LStrip(_, _)
LStrip(str, chars) ==
    IF str # << >> /\ Head(str) \in chars THEN LStrip(Tail(str), chars) ELSE str

RECURSIVE RStrip(_, _)
RStrip(str, chars) ==
    IF str # << >> /\ str[Len(str)] \in chars
    THEN RStrip(SubSeq(str, 1, Len(str) - 1), chars) ELSE str

\* str.strip()
Strip(str) == RStrip(LStrip(str, Whitespace), Whitespace)

\* the index of the first ":" of str, 0 when it has none
ColonIndex(str) ==
    IF \E i \in 1..Len(str) : str[i] = COLON
    THEN CHOOSE i \in 1..Len(str) : str[i] = COLON /\ \A j \in 1..(i - 1) : str[j] # COLON
    ELSE 0

\* `key` and `value` of a stripped line: partition(":") and strip(), or the
\* whole line as key when it has no colon
KeyOf(stripped) ==
    IF ColonIndex(stripped) > 0
    THEN Strip(SubSeq(stripped, 1, ColonIndex(stripped) - 1))
    ELSE Strip(stripped)

LineValueOf(stripped) ==
    IF ColonIndex(stripped) > 0
    THEN Strip(SubSeq(stripped, ColonIndex(stripped) + 1, Len(stripped)))
    ELSE << >>

\* is the line skipped by `if not stripped or stripped.startswith("#")`
IsSkipped(line) ==
    LStripTabs(line) = << >> \/ Head(LStripTabs(line)) = COMMENT

\* depth = len(line) - len(stripped)
DepthOf(line) == Len(line) - Len(LStripTabs(line))

\* while stack and stack[-1][0] > depth: stack.pop()
RECURSIVE PopDeeper(_, _)
PopDeeper(st, depth) ==
    IF st # << >> /\ st[Len(st)].depth > depth
    THEN PopDeeper(SubSeq(st, 1, Len(st) - 1), depth) ELSE st

\* while stack and stack[-1][0] >= depth: stack.pop()
RECURSIVE PopStack(_, _)
PopStack(st, depth) ==
    IF st # << >> /\ st[Len(st)].depth >= depth
    THEN PopStack(SubSeq(st, 1, Len(st) - 1), depth) ELSE st

Tabs(d) == [i \in 1..d |-> TAB]

\* U+00A0, a space that str.strip() removes and text.splitlines() keeps
NBSP == " "

\* the lines "a", "b", "a : x" with a U+00A0 after the x, "#a", "" and " "
LineBodies ==
    {<<"a">>, <<"b">>, <<"a", " ", ":", " ", "x", NBSP>>, <<"#", "a">>, << >>, <<" ">>}

TextLines == {Tabs(d) \o b : d \in 0..MaxIndent, b \in LineBodies}

RootAddr == 1

ParserStart ==
    /\ lines = << >>
    /\ nodes = << << >> >>
    /\ pstack = <<[depth |-> -1, node |-> RootAddr]>>
    /\ parentOf = << >>
    /\ nodeOf = << >>

\* one iteration of the loop body on the dicts ns and the stack ps: the
\* dicts and the stack after it, and the parent and child of the line (0 for
\* a skipped line)
ParseStep(ns, ps, line) ==
    IF IsSkipped(line)
    THEN [nodes |-> ns, pstack |-> ps, parent |-> 0, child |-> 0]
    ELSE LET stripped == LStripTabs(line)
             st == PopStack(ps, DepthOf(line))
             parent == st[Len(st)].node
             child == Len(ns) + 1
         IN [nodes |-> Append([ns EXCEPT ![parent] = DictSet(@, DictEntry(KeyOf(stripped), child))],
                              <<ScalarEntry(VALUE_KEY, LineValueOf(stripped))>>),
             pstack |-> Append(st, [depth |-> DepthOf(line), node |-> child]),
             parent |-> parent,
             child |-> child]

\* one iteration of the loop, for the next line of the text
ParseLine(line) ==
    /\ UNCHANGED <<rvars, evars, wvars, bvars>>
    /\ Len(lines) < MaxLines
    /\ lines' = Append(lines, line)
    /\ LET r == ParseStep(nodes, pstack, line)
       IN /\ nodes' = r.nodes
          /\ pstack' = r.pstack
          /\ parentOf' = Append(parentOf, r.parent)
          /\ nodeOf' = Append(nodeOf, r.child)

\* parse_miniyaml(text) for the lines ls of a text: the dicts built, the
\* root at RootAddr
RECURSIVE ParseFrom(_, _, _)
ParseFrom(ns, ps, ls) ==
    IF ls = << >> THEN ns
    ELSE LET r == ParseStep(ns, ps, Head(ls)) IN ParseFrom(r.nodes, r.pstack, Tail(ls))

parse_miniyaml(ls) == ParseFrom(<< << >> >>, <<[depth |-> -1, node |-> RootAddr]>>, ls)

----------------------------------------------------------------------------
(* The parsed definitions.  A tree is [v |-> the node's "__value__",       *)
(* ch |-> the sequence of its children, each [k |-> key, t |-> tree]].     *)
(* AllocNode lays a tree out in the heap the way parse_miniyaml builds it: *)
(* a dict whose first entry is "__value__", followed by one dict-valued    *)
(* entry per child.                                                        *)

Leaf(v) == [v |-> v, ch |-> <<>>]
Child(k, t) == [k |-> k, t |-> t]

RECURSIVE AllocNode(_, _)
RECURSIVE AllocChildren(_, _, _, _)

AllocChildren(h, ch, i, na) ==
    IF i > Len(ch) THEN h
    ELSE LET r == AllocNode(h, ch[i].t) IN
         AllocChildren([r.h EXCEPT ![na] = DictSet(@, DictEntry(ch[i].k, r.a))], ch, i + 1, na)

AllocNode(h, t) ==
    LET h1 == Append(h, <<ScalarEntry(VALUE_KEY, t.v)>>)
        na == Len(h1)
    IN [h |-> AllocChildren(h1, t.ch, 1, na), a |-> na]

\* The names of the definitions, and a name no definition has
DefNames == {nA, nB, nC}
Unknown == <<"Z">>
CallNames == DefNames \cup {Unknown}

\* The Inherits children of a definition that lists the parents ps
InheritsOf(ps) ==
    IF Len(ps) = 0 THEN <<>>
    ELSE IF Len(ps) = 1 THEN <<Child(INHERITS, Leaf(ps[1]))>>
    ELSE <<Child(INHERITS, Leaf(ps[1])), Child(kInherits2, Leaf(ps[2]))>>

\* The fields of a definition
BodyEmpty == <<>>
BodyBase == <<Child(kF, [v |-> <<"1">>, ch |-> <<Child(kH, Leaf(<<"x">>))>>]), Child(kG, Leaf(<<"1", "0", "0">>))>>
BodyF2 == <<Child(kF, [v |-> <<"2">>, ch |-> <<Child(kJ, Leaf(<<"y">>))>>])>>
BodyG200 == <<Child(kG, Leaf(<<"2", "0", "0">>))>>
BodyRemF == <<Child(kRemF, Leaf(EMPTY))>>
BodyRemRemThenRem == <<Child(kRemRemF, Leaf(EMPTY)), Child(kRemF, Leaf(EMPTY))>>
BodyRemThenRemRem == <<Child(kRemF, Leaf(EMPTY)), Child(kRemRemF, Leaf(EMPTY))>>
\* an Inherits child with a "__value__" child of its own: the lines
\* "Inherits@3: B" and, one level deeper, "__value__: A"
BodyInheritsNode == <<Child(kInherits3, [v |-> nB, ch |-> <<Child(VALUE_KEY, Leaf(nA))>>])>>

ParentsOfA == {<<>>, <<nB>>, <<nA>>, <<EMPTY, Unknown>>}
ParentsOfB == {<<>>, <<nA>>, <<nC>>}
ParentsOfC == {<<>>, <<nA>>, <<nB>>, <<nA, nB>>, <<nB, nA>>}
BodiesOfA == {BodyBase, BodyF2}
BodiesOfB == {BodyF2, BodyG200, BodyRemF}
BodiesOfC == {BodyEmpty, BodyF2, BodyRemF, BodyRemRemThenRem, BodyRemThenRemRem, BodyInheritsNode}

DefTree(ps, body) == [v |-> EMPTY, ch |-> InheritsOf(ps) \o body]

----------------------------------------------------------------------------
(* resolve_inherits *)

\* val.get("__value__", "") for the value of entry e: a string or a dict;
\* a val that is no dict has no get
ValueOf(h, e) ==
    IF e.isd THEN Returns(ValueAt(h, e.ref)) ELSE Raises("AttributeError")

\* `parents` collected in the reverse of the child order
RECURSIVE ParentsReversedFrom(_, _, _)
ParentsReversedFrom(h, a, i) ==
    IF i > Len(h[a]) THEN Returns(<< >>)
    ELSE IF ~StartsWith(h[a][i].k, INHERITS) THEN ParentsReversedFrom(h, a, i + 1)
    ELSE IF ValueOf(h, h[a][i]).exc # "" THEN Raises(ValueOf(h, h[a][i]).exc)
    ELSE IF ~IsTrue(h, ValueOf(h, h[a][i]).res) THEN ParentsReversedFrom(h, a, i + 1)
    ELSE IF ParentsReversedFrom(h, a, i + 1).exc # "" THEN ParentsReversedFrom(h, a, i + 1)
    ELSE Returns(ParentsReversedFrom(h, a, i + 1).res \o <<ValueOf(h, h[a][i]).res>>)

\* the loop that collects `parents` from entry i of node a on: the truthy
\* "__value__" of the children whose key starts with "Inherits", in child
\* order
RECURSIVE ParentsFrom(_, _, _)
ParentsFrom(h, a, i) ==
    IF i > Len(h[a]) THEN Returns(<< >>)
    ELSE IF ~StartsWith(h[a][i].k, INHERITS) THEN ParentsFrom(h, a, i + 1)
    ELSE IF ValueOf(h, h[a][i]).exc # "" THEN Raises(ValueOf(h, h[a][i]).exc)
    ELSE IF ~IsTrue(h, ValueOf(h, h[a][i]).res) THEN ParentsFrom(h, a, i + 1)
    ELSE IF ParentsFrom(h, a, i + 1).exc # "" THEN ParentsFrom(h, a, i + 1)
    ELSE Returns(<<ValueOf(h, h[a][i]).res>> \o ParentsFrom(h, a, i + 1).res)

Parents(h, a) == ParentsFrom(h, a, 1)

\* `removals`: the keys of d that start with "-", in the order of d
Removals(d) ==
    LET rem == SelectSeq(d, LAMBDA e : StartsWith(e.k, REMOVAL))
    IN [i \in 1..Len(rem) |-> rem[i].k]

\* the removal loop without `result.pop(target, None)`
RECURSIVE ApplyRemovalsKeepTarget(_, _, _)
ApplyRemovalsKeepTarget(d, removals, i) ==
    IF i > Len(removals) THEN [ok |-> TRUE, d |-> d]
    ELSE IF DictHas(d, removals[i])
    THEN ApplyRemovalsKeepTarget(DictPop(d, removals[i]), removals, i + 1)
    ELSE [ok |-> FALSE, d |-> d]

\* the removal loop from removal i on; ok is FALSE when `del result[removal_key]`
\* raises KeyError, and d is then the dict as the loop left it
RECURSIVE ApplyRemovals(_, _, _)
ApplyRemovals(d, removals, i) ==
    IF i > Len(removals) THEN [ok |-> TRUE, d |-> d]
    ELSE LET d1 == DictPop(d, StripFirst(removals[i])) IN
         IF DictHas(d1, removals[i])
         THEN ApplyRemovals(DictPop(d1, removals[i]), removals, i + 1)
         ELSE [ok |-> FALSE, d |-> d1]

\* the branches without `if name in resolved_cache`
OutcomeNoCache(n, inProgress) ==
    IF n \notin DOMAIN defs THEN "unknown"
    ELSE IF n \in inProgress THEN "cycle"
    ELSE "descend"

\* which of its four branches a call resolve_inherits(definitions, n, ...) takes
Outcome(n, inProgress) ==
    IF n \in DOMAIN cache THEN "cached"
    ELSE IF n \notin DOMAIN defs THEN "unknown"
    ELSE IF n \in inProgress THEN "cycle"
    ELSE "descend"

\* the activation record of a call that got past the three early returns
Frame(h, n) ==
    [name |-> n, parents |-> Parents(h, defs[n]).res, idx |-> 1, result |-> Len(h) + 1, got |-> << >>]

\* the value of the tree at address a, without addresses
RECURSIVE TreeValue(_, _)
TreeValue(h, a) ==
    [i \in 1..Len(h[a]) |->
        [k |-> h[a][i].k, isd |-> h[a][i].isd, s |-> h[a][i].s,
         sub |-> IF h[a][i].isd THEN TreeValue(h, h[a][i].ref) ELSE <<>>]]

NoFresh == [n |-> EMPTY, v |-> <<>>]

\* The empty dict a top-level call returned for an unknown name is dropped
\* by the caller before the next call
LiveHeap ==
    IF ret > 0 /\ ret = Len(heap) /\ callName \notin DOMAIN defs
    THEN SubSeq(heap, 1, Len(heap) - 1) ELSE heap

Top == stack[Len(stack)]

InitResolver ==
    \E pa \in ParentsOfA, pb \in ParentsOfB, pc \in ParentsOfC,
       ba \in BodiesOfA, bb \in BodiesOfB, bc \in BodiesOfC :
        LET ra == AllocNode(<<>>, DefTree(pa, ba))
            rb == AllocNode(ra.h, DefTree(pb, bb))
            rc == AllocNode(rb.h, DefTree(pc, bc))
        IN /\ heap = rc.h
           /\ defs = [n \in DefNames |-> IF n = nA THEN ra.a ELSE IF n = nB THEN rb.a ELSE rc.a]
           /\ rawLen = Len(rc.h)
    /\ cache = << >>
    /\ merged = << >>
    /\ resolving = {}
    /\ stack = << >>
    /\ status = "idle"
    /\ callName = EMPTY
    /\ ret = 0
    /\ freshCall = FALSE
    /\ firstFresh = NoFresh

\* A top-level call resolve_inherits(definitions, n, resolved_cache): the
\* `resolving` set is a new one, so the cycle branch cannot be taken
Call(n) ==
    /\ UNCHANGED <<pvars, evars, wvars, bvars>>
    /\ status = "idle"
    /\ callName' = n
    /\ freshCall' = (cache = << >>)
    /\ UNCHANGED <<defs, rawLen, cache, merged, recording>>
    /\ LET h == LiveHeap IN
       IF Outcome(n, {}) = "cached"
       THEN /\ heap' = h
            /\ ret' = cache[n]
            /\ resolving' = {}
            /\ UNCHANGED <<stack, status, firstFresh>>
       ELSE IF Outcome(n, {}) = "unknown"
       THEN /\ heap' = Append(h, << >>)
            /\ ret' = Len(h) + 1
            /\ resolving' = {}
            /\ firstFresh' = IF recording /\ cache = << >> /\ firstFresh = NoFresh
                             THEN [n |-> n, v |-> << >>] ELSE firstFresh
            /\ UNCHANGED <<stack, status>>
       ELSE IF Parents(h, defs[n]).exc # ""
       THEN /\ heap' = Append(h, << >>)
            /\ resolving' = {n}
            /\ status' = Parents(h, defs[n]).exc
            /\ ret' = 0
            /\ UNCHANGED <<stack, firstFresh>>
       ELSE /\ heap' = Append(h, << >>)
            /\ stack' = <<Frame(h, n)>>
            /\ resolving' = {n}
            /\ status' = "running"
            /\ ret' = 0
            /\ UNCHANGED firstFresh

\* the frames after the recursive call of the top frame for parents[idx] has
\* returned the dict at address a
NextParent(a) ==
    [stack EXCEPT ![Len(stack)].idx = @ + 1, ![Len(stack)].got = Append(@, a)]

\* The recursive call for the next parent finds it in the cache
RecurseCached ==
    /\ UNCHANGED <<pvars, evars, wvars, bvars>>
    /\ status = "running"
    /\ Top.idx <= Len(Top.parents)
    /\ ~Top.parents[Top.idx].isd
    /\ Outcome(Top.parents[Top.idx].s, resolving) = "cached"
    /\ heap' = deep_merge(heap, Top.result, cache[Top.parents[Top.idx].s])
    /\ stack' = NextParent(cache[Top.parents[Top.idx].s])
    /\ UNCHANGED <<defs, rawLen, cache, merged, resolving, status, callName, ret, recording, freshCall, firstFresh>>

\* The recursive call for the next parent finds no such definition: {} is merged
RecurseUnknown ==
    /\ UNCHANGED <<pvars, evars, wvars, bvars>>
    /\ status = "running"
    /\ Top.idx <= Len(Top.parents)
    /\ ~Top.parents[Top.idx].isd
    /\ Outcome(Top.parents[Top.idx].s, resolving) = "unknown"
    /\ stack' = NextParent(0)
    /\ UNCHANGED <<heap, defs, rawLen, cache, merged, resolving, status, callName, ret, recording, freshCall, firstFresh>>

\* The recursive call for the next parent finds it in progress: its raw node is merged
RecurseCycle ==
    /\ UNCHANGED <<pvars, evars, wvars, bvars>>
    /\ status = "running"
    /\ Top.idx <= Len(Top.parents)
    /\ ~Top.parents[Top.idx].isd
    /\ Outcome(Top.parents[Top.idx].s, resolving) = "cycle"
    /\ heap' = deep_merge(heap, Top.result, defs[Top.parents[Top.idx].s])
    /\ stack' = NextParent(defs[Top.parents[Top.idx].s])
    /\ UNCHANGED <<defs, rawLen, cache, merged, resolving, status, callName, ret, recording, freshCall, firstFresh>>

\* The recursive call for the next parent starts resolving it; when the
\* collection of its own parents raises, the exception leaves every active
\* call
RecurseDescend ==
    /\ UNCHANGED <<pvars, evars, wvars, bvars>>
    /\ status = "running"
    /\ Top.idx <= Len(Top.parents)
    /\ ~Top.parents[Top.idx].isd
    /\ Outcome(Top.parents[Top.idx].s, resolving) = "descend"
    /\ heap' = Append(heap, << >>)
    /\ resolving' = resolving \cup {Top.parents[Top.idx].s}
    /\ IF Parents(heap, defs[Top.parents[Top.idx].s]).exc # ""
       THEN /\ stack' = << >>
            /\ status' = Parents(heap, defs[Top.parents[Top.idx].s]).exc
       ELSE /\ stack' = Append(stack, Frame(heap, Top.parents[Top.idx].s))
            /\ UNCHANGED status
    /\ UNCHANGED <<defs, rawLen, cache, merged, callName, ret, recording, freshCall, firstFresh>>

\* The recursive call for the next parent gets a dict as its name, the
\* "__value__" of an Inherits child that has a "__value__" child of its own:
\* `name in resolved_cache` raises TypeError (unhashable type), the exception
\* leaves every active call, `resolving` is not cleaned
RaiseTypeError ==
    /\ UNCHANGED <<pvars, evars, wvars, bvars>>
    /\ status = "running"
    /\ Top.idx <= Len(Top.parents)
    /\ Top.parents[Top.idx].isd
    /\ stack' = << >>
    /\ status' = "TypeError"
    /\ UNCHANGED <<heap, defs, rawLen, cache, merged, resolving, callName, ret, recording, freshCall, firstFresh>>

\* `resolving` when `resolving.discard(name)` is left out
DiscardNothing(inProgress, n) == inProgress

\* `resolving` after `resolving.discard(name)`
Discard(inProgress, n) == inProgress \ {n}

\* the heap when `deep_merge(result, node)` is left out
OwnNotMerged == heap

\* the heap after `deep_merge(result, node)` of the frame on top
OwnMerged == deep_merge(heap, Top.result, defs[Top.name])

\* the outcome of the removal loop of the frame on top
Removed == ApplyRemovals(OwnMerged[Top.result], Removals(OwnMerged[Top.result]), 1)

\* All parents are merged: merge the own node, apply the removals, store the
\* result in the cache and return it, to the caller's deep_merge or to the
\* top-level caller
Complete ==
    /\ UNCHANGED <<pvars, evars, wvars, bvars>>
    /\ status = "running"
    /\ Top.idx > Len(Top.parents)
    /\ Removed.ok
    /\ LET h == [OwnMerged EXCEPT ![Top.result] = Removed.d]
           rest == SubSeq(stack, 1, Len(stack) - 1)
       IN /\ resolving' = Discard(resolving, Top.name)
          /\ cache' = (Top.name :> Top.result) @@ cache
          /\ merged' = (Top.name :> Top.got) @@ merged
          /\ IF rest = << >>
             THEN /\ heap' = h
                  /\ stack' = rest
                  /\ status' = "idle"
                  /\ ret' = Top.result
                  /\ firstFresh' = IF recording /\ freshCall /\ firstFresh = NoFresh
                                   THEN [n |-> callName, v |-> TreeValue(h, Top.result)]
                                   ELSE firstFresh
             ELSE /\ heap' = deep_merge(h, rest[Len(rest)].result, Top.result)
                  /\ stack' = [rest EXCEPT ![Len(rest)].idx = @ + 1,
                                            ![Len(rest)].got = Append(@, Top.result)]
                  /\ UNCHANGED <<status, ret, firstFresh>>
    /\ UNCHANGED <<defs, rawLen, callName, recording, freshCall>>

\* `del result[removal_key]` raises KeyError: the exception leaves every
\* active call, nothing is stored in the cache, `resolving` is not cleaned
RaiseKeyError ==
    /\ UNCHANGED <<pvars, evars, wvars, bvars>>
    /\ status = "running"
    /\ Top.idx > Len(Top.parents)
    /\ ~Removed.ok
    /\ heap' = [OwnMerged EXCEPT ![Top.result] = Removed.d]
    /\ stack' = << >>
    /\ status' = "KeyError"
    /\ UNCHANGED <<defs, rawLen, cache, merged, resolving, callName, ret, recording, freshCall, firstFresh>>

\* A new resolver run over the same definitions: an empty cache, the objects
\* of the old one are garbage (extract_weapons / extract_units: resolved_cache = {})
NewCache ==
    /\ UNCHANGED <<pvars, evars, wvars, bvars>>
    /\ status = "idle"
    /\ cache # << >> \/ ret # 0
    /\ cache' = << >>
    /\ merged' = << >>
    /\ heap' = SubSeq(heap, 1, rawLen)
    /\ resolving' = {}
    /\ callName' = EMPTY
    /\ ret' = 0
    /\ freshCall' = FALSE
    /\ UNCHANGED <<defs, rawLen, stack, status, recording, firstFresh>>

Next ==
    \/ \E n \in CallNames : Call(n)
    \/ RecurseCached
    \/ RecurseUnknown
    \/ RecurseCycle
    \/ RecurseDescend
    \/ Complete
    \/ RaiseKeyError
    \/ RaiseTypeError
    \/ NewCache

\* The resolver over parsed definitions
Init == InitResolver /\ recording = FALSE /\ ParserStart /\ ExtractorIdle /\ RewardIdle /\ RubricIdle


Spec == Init /\ [][Next]_vars

\* The same program, keeping the first result on a fresh cache for comparison
InitRecording == InitResolver /\ recording = TRUE /\ ParserStart /\ ExtractorIdle /\ RewardIdle /\ RubricIdle

SpecRecording == InitRecording /\ [][Next]_vars

\* The parser alone, over every text of at most MaxLines lines of TextLines
ResolverIdle ==
    /\ heap = << >> /\ defs = << >> /\ rawLen = 0 /\ cache = << >> /\ merged = << >>
    /\ resolving = {} /\ stack = << >> /\ status = "idle" /\ callName = EMPTY /\ ret = 0
    /\ recording = FALSE /\ freshCall = FALSE /\ firstFresh = NoFresh

InitParser ==
    /\ ParserStart /\ ExtractorIdle /\ ResolverIdle /\ RewardIdle /\ RubricIdle

NextParser == \E line \in TextLines : ParseLine(line)

SpecParser == InitParser /\ [][NextParser]_vars

TypeOK ==
    /\ status \in {"idle", "running", "KeyError", "TypeError", "AttributeError"}
    /\ DOMAIN cache \subseteq DefNames
    /\ resolving \subseteq DefNames

----------------------------------------------------------------------------
(* The field accessors get_value and get_child, on a heap h of dicts.  The *)
(* value `current` walks over is an entry: a dict (isd, ref) or a string   *)
(* (s).                                                                     *)

\* the characters up to U+00FF that str.lower() changes, and what it makes of them
UPPER == <<"A", "B", "C", "D", "E", "F", "G", "H", "I", "J", "K", "L", "M",
           "N", "O", "P", "Q", "R", "S", "T", "U", "V", "W", "X", "Y", "Z",
           "À", "Á", "Â", "Ã", "Ä", "Å", "Æ", "Ç", "È", "É", "Ê", "Ë", "Ì",
           "Í", "Î", "Ï", "Ð", "Ñ", "Ò", "Ó", "Ô", "Õ", "Ö", "Ø", "Ù", "Ú",
           "Û", "Ü", "Ý", "Þ">>
LOWER == <<"a", "b", "c", "d", "e", "f", "g", "h", "i", "j", "k", "l", "m",
           "n", "o", "p", "q", "r", "s", "t", "u", "v", "w", "x", "y", "z",
           "à", "á", "â", "ã", "ä", "å", "æ", "ç", "è", "é", "ê", "ë", "ì",
           "í", "î", "ï", "ð", "ñ", "ò", "ó", "ô", "õ", "ö", "ø", "ù", "ú",
           "û", "ü", "ý", "þ">>

\* the upper-case letters, and the place of each in UPPER
UpperSet == {UPPER[i] : i \in 1..Len(UPPER)}
UpperIndex == [c \in UpperSet |-> CHOOSE i \in 1..Len(UPPER) : UPPER[i] = c]

\* str.lower() of one character
LowerChar(c) == IF c \in UpperSet THEN LOWER[UpperIndex[c]] ELSE c

Lower(str) == [i \in 1..Len(str) |-> LowerChar(str[i])]

\* the node itself, as the starting value of `current`
NodeAt(a) == DictEntry(EMPTY, a)

\* for k in current: if k.lower() == key.lower() [and isinstance(current[k], dict)]:
\* the index of the entry the scan from entry i on stops at, 0 when it
\* finds none
RECURSIVE ScanAnyCase(_, _, _, _)
ScanAnyCase(d, key, onlyDicts, i) ==
    IF i > Len(d) THEN 0
    ELSE IF Lower(d[i].k) = Lower(key) /\ (onlyDicts => d[i].isd) THEN i
    ELSE ScanAnyCase(d, key, onlyDicts, i + 1)

\* one step of either accessor without the exact match: the scan alone
StepAnyCaseOnly(h, cur, key, onlyDicts) ==
    IF ~cur.isd THEN [found |-> FALSE, cur |-> cur]
    ELSE LET d == h[cur.ref]
             i == ScanAnyCase(d, key, onlyDicts, 1)
         IN IF i > 0 THEN [found |-> TRUE, cur |-> d[i]]
            ELSE [found |-> FALSE, cur |-> cur]

\* one iteration of the loop over keys, in get_value (onlyDicts = FALSE)
\* and in get_child (onlyDicts = TRUE)
AccessStep(h, cur, key, onlyDicts) ==
    IF ~cur.isd THEN [found |-> FALSE, cur |-> cur]
    ELSE LET d == h[cur.ref] IN
         IF DictHas(d, key) /\ (onlyDicts => DictGet(d, key).isd)
         THEN [found |-> TRUE, cur |-> DictGet(d, key)]
         ELSE LET i == ScanAnyCase(d, key, onlyDicts, 1) IN
              IF i > 0 THEN [found |-> TRUE, cur |-> d[i]]
              ELSE [found |-> FALSE, cur |-> cur]

\* the loop over keys: the entry reached, or found = FALSE after an early
\* return
RECURSIVE Navigate(_, _, _, _)
Navigate(h, cur, keys, onlyDicts) ==
    IF keys = << >> THEN [found |-> TRUE, cur |-> cur]
    ELSE LET r == AccessStep(h, cur, Head(keys), onlyDicts) IN
         IF r.found THEN Navigate(h, r.cur, Tail(keys), onlyDicts) ELSE r

\* get_value(node, *keys) for the node at address a: the value returned, a
\* string, or a dict when the "__value__" of the node reached is one
get_value(h, a, keys) ==
    LET r == Navigate(h, NodeAt(a), keys, FALSE) IN
    IF ~r.found THEN Str(EMPTY)
    ELSE IF r.cur.isd THEN ValueAt(h, r.cur.ref)
    ELSE Str(r.cur.s)

\* get_child(node, *keys) for the node at address a: the address of the
\* dict returned, 0 for the new empty dict {}
get_child(h, a, keys) ==
    LET r == Navigate(h, NodeAt(a), keys, TRUE) IN
    IF r.found THEN r.cur.ref ELSE 0

----------------------------------------------------------------------------
(* The resolved definitions the extractor is applied to: a unit definition *)
(* and a table of weapon definitions, as trees laid out in `store`.        *)

kArmamentPrimary == <<"A", "r", "m", "a", "m", "e", "n", "t", "@", "P", "R", "I", "M", "A", "R", "Y">>
kArmament == <<"A", "r", "m", "a", "m", "e", "n", "t">>
kArmamentAG == <<"A", "r", "m", "a", "m", "e", "n", "t", "@", "A", "G">>
kArmamentSecondary == <<"A", "r", "m", "a", "m", "e", "n", "t", "@", "S", "E", "C", "O", "N", "D", "A", "R", "Y">>
kWeapon == <<"W", "e", "a", "p", "o", "n">>
kValued == <<"V", "a", "l", "u", "e", "d">>
kCost == <<"C", "o", "s", "t">>
kArmor == <<"A", "r", "m", "o", "r">>
kType == <<"T", "y", "p", "e">>
kVersus == <<"V", "e", "r", "s", "u", "s">>

\* weapon names
wGun == <<"G", "u", "n">>
wTusk == <<"T", "u", "s", "k">>
wDragon == <<"D", "r", "a", "g", "o", "n">>

\* a node with one child k whose value is v
With(k, v) == [v |-> EMPTY, ch |-> <<Child(k, Leaf(v))>>]

UnitTree(ch) == [v |-> EMPTY, ch |-> ch]

\* unit definitions
UnitBare == UnitTree(<< >>)
UnitPrimary ==
    UnitTree(<<Child(kArmamentPrimary, With(kWeapon, wGun)),
               Child(kValued, With(kCost, <<"1", "0", "0">>)),
               Child(kArmor, With(kType, <<"H", "e", "a", "v", "y">>))>>)
UnitPlain ==
    UnitTree(<<Child(kArmament, With(kWeapon, wGun)),
               Child(kValued, With(kCost, <<"-", "5">>)),
               Child(kArmor, With(kType, <<"S", "t", "e", "e", "l">>))>>)
UnitDual ==
    UnitTree(<<Child(kArmamentPrimary, With(kWeapon, wGun)),
               Child(kArmamentSecondary, With(kWeapon, wTusk)),
               Child(kValued, With(kCost, <<"a", "b", "c">>)),
               Child(kArmor, Leaf(EMPTY))>>)
UnitSecondaryOnly ==
    UnitTree(<<Child(kArmamentSecondary, With(kWeapon, wTusk)),
               Child(kValued, Leaf(<<"1", "0", "0">>))>>)
UnitAntiGround ==
    UnitTree(<<Child(kArmamentAG, With(kWeapon, wGun)),
               Child(kArmamentSecondary, With(kWeapon, wTusk)),
               Child(kValued, With(kCost, <<"+", "7">>))>>)
UnitNoWeaponName ==
    UnitTree(<<Child(kArmamentPrimary, Leaf(EMPTY)),
               Child(kArmament, With(kWeapon, wGun)),
               Child(kArmor, With(kType, <<"n", "o", "n", "e">>))>>)
\* keys that differ from the paths in case only
UnitLowerCase ==
    UnitTree(<<Child(<<"v", "a", "l", "u", "e", "d">>, With(<<"c", "o", "s", "t">>, <<"7">>)),
               Child(<<"V", "A", "L", "U", "E", "D">>, With(<<"C", "O", "S", "T">>, <<"8">>)),
               Child(<<"a", "r", "m", "a", "m", "e", "n", "t">>, With(<<"w", "e", "a", "p", "o", "n">>, wGun)),
               Child(<<"A", "R", "M", "O", "R">>, With(<<"t", "y", "p", "e">>, <<"L", "i", "g", "h", "t">>))>>)
\* a key in another case before the exact key
UnitMixedCase ==
    UnitTree(<<Child(<<"v", "a", "l", "u", "e", "d">>, With(<<"C", "O", "S", "T">>, <<"7">>)),
               Child(kValued, With(kCost, <<"1", "0", "0">>)),
               Child(<<"a", "r", "m", "o", "r">>, With(<<"t", "y", "p", "e">>, <<"W", "o", "o", "d">>)),
               Child(kArmor, With(kType, <<"C", "o", "n", "c", "r", "e", "t", "e">>)),
               Child(kArmament, With(kWeapon, <<"Z", "a", "p">>))>>)

\* a node with one child k whose value is v, the child having a
\* "__value__" child of its own, w: the lines "k: v" and, one level deeper,
\* "__value__: w"
WithNode(k, v, w) == [v |-> EMPTY, ch |-> <<Child(k, [v |-> v, ch |-> <<Child(VALUE_KEY, Leaf(w))>>])>>]

\* the weapon reference, Valued and the armor type have a "__value__" child
UnitValueNodes ==
    UnitTree(<<Child(kArmament, WithNode(kWeapon, wGun, wTusk)),
               Child(kValued, [v |-> <<"9">>, ch |-> <<Child(VALUE_KEY, Leaf(<<"7">>)), Child(kCost, Leaf(<<"5">>))>>]),
               Child(kArmor, WithNode(kType, <<"H", "e", "a", "v", "y">>, <<"L", "i", "g", "h", "t">>))>>)
\* the weapon reference alone has a "__value__" child
UnitWeaponNode ==
    UnitTree(<<Child(kArmament, WithNode(kWeapon, wGun, wTusk)),
               Child(kArmor, With(kType, <<"L", "i", "g", "h", "t">>))>>)
\* the secondary weapon reference and the cost have a "__value__" child
UnitSecondaryNode ==
    UnitTree(<<Child(kArmamentPrimary, With(kWeapon, wGun)),
               Child(kArmamentSecondary, WithNode(kWeapon, wTusk, wGun)),
               Child(kValued, WithNode(kCost, <<"5">>, <<"6">>))>>)

UnitTrees ==
    {UnitBare, UnitPrimary, UnitPlain, UnitDual, UnitSecondaryOnly, UnitAntiGround,
     UnitNoWeaponName, UnitLowerCase, UnitMixedCase, UnitValueNodes, UnitWeaponNode,
     UnitSecondaryNode}

kWarhead1 == <<"W", "a", "r", "h", "e", "a", "d", "@", "1", "D", "a", "m">>
kWarhead2 == <<"W", "a", "r", "h", "e", "a", "d", "@", "2", "D", "a", "m">>
kWarheadLower == <<"w", "a", "r", "h", "e", "a", "d", "@", "3", "D", "a", "m">>
SpreadDamage == <<"S", "p", "r", "e", "a", "d", "D", "a", "m", "a", "g", "e">>
TargetDamage == <<"T", "a", "r", "g", "e", "t", "D", "a", "m", "a", "g", "e">>

\* a Versus entry `armor: pct`
Pct(armor, pct) == Child(armor, Leaf(pct))

\* a warhead of the given type with a Versus table
Warhead(k, type, table) == Child(k, [v |-> type, ch |-> <<Child(kVersus, [v |-> EMPTY, ch |-> table])>>])

WeaponTree(ch) == [v |-> EMPTY, ch |-> ch]

\* weapon definitions
WeaponNoneHeavy ==
    WeaponTree(<<Child(<<"R", "a", "n", "g", "e">>, Leaf(<<"5", "c", "0">>)),
                 Warhead(kWarhead1, SpreadDamage, <<Pct(<<"N", "o", "n", "e">>, <<"6", "0">>), Pct(<<"H", "e", "a", "v", "y">>, <<"7", "0">>)>>)>>)
WeaponNone100 ==
    WeaponTree(<<Warhead(kWarhead1, TargetDamage, <<Pct(<<"N", "o", "n", "e">>, <<"1", "0", "0">>)>>)>>)
WeaponOdd ==
    WeaponTree(<<Warhead(kWarhead1, SpreadDamage,
                         <<Pct(<<"N", "o", "n", "e">>, <<"6", "5">>), Pct(<<"W", "o", "o", "d">>, <<"7", "5">>), Pct(<<"C", "o", "n", "c", "r", "e", "t", "e">>, <<"a", "b", "c">>)>>)>>)
\* two damage warheads, each with tracked armor tags
WeaponTwoTables ==
    WeaponTree(<<Warhead(kWarhead1, SpreadDamage, <<Pct(<<"N", "o", "n", "e">>, <<"6", "0">>)>>),
                 Warhead(kWarhead2, SpreadDamage, <<Pct(<<"N", "o", "n", "e">>, <<"1", "0", "0">>), Pct(<<"L", "i", "g", "h", "t">>, <<"3", "0">>)>>)>>)
\* the first damage warhead's table has no tracked armor tag
WeaponFirstUntracked ==
    WeaponTree(<<Warhead(kWarhead1, SpreadDamage, <<Pct(<<"S", "t", "e", "e", "l">>, <<"5", "0">>)>>),
                 Warhead(kWarheadLower, <<"S", "p", "r", "e", "a", "d", ":", " ", "T", "a", "r", "g", "e", "t", "D", "a", "m", "a", "g", "e">>, <<Pct(<<"l", "i", "g", "h", "t">>, <<"3", "0">>)>>)>>)
\* the only table has no tracked armor tag
WeaponUntracked ==
    WeaponTree(<<Warhead(kWarhead1, SpreadDamage, <<Pct(<<"S", "t", "e", "e", "l">>, <<"5", "0">>)>>)>>)
\* a damage warhead without a Versus table
WeaponNoVersus ==
    WeaponTree(<<Child(kWarhead1, Leaf(SpreadDamage))>>)
\* a warhead that is no damage warhead, then a damage warhead
WeaponEffectFirst ==
    WeaponTree(<<Warhead(kWarhead1, <<"C", "r", "e", "a", "t", "e", "E", "f", "f", "e", "c", "t">>, <<Pct(<<"N", "o", "n", "e">>, <<"1", "0">>)>>),
                 Warhead(kWarhead2, SpreadDamage, <<Pct(<<"H", "e", "a", "v", "y">>, <<"1", "1", "5">>)>>)>>)

\* the warhead type has a "__value__" child, a node with a child
\* SpreadDamage, and so has the percentage of None
WeaponValueNodes ==
    WeaponTree(<<Child(kWarhead1,
                       [v |-> <<"x">>,
                        ch |-> <<Child(VALUE_KEY, With(SpreadDamage, EMPTY)),
                                 Child(kVersus, [v |-> EMPTY,
                                                 ch |-> <<Child(<<"N", "o", "n", "e">>, [v |-> <<"6", "0">>, ch |-> <<Child(VALUE_KEY, Leaf(<<"5", "0">>))>>]),
                                                          Pct(<<"H", "e", "a", "v", "y">>, <<"7", "0">>)>>])>>])>>)

GunTrees ==
    {WeaponNoneHeavy, WeaponOdd, WeaponTwoTables, WeaponFirstUntracked, WeaponUntracked,
     WeaponNoVersus, WeaponEffectFirst, WeaponValueNodes}
TuskTrees == {WeaponNone100, WeaponOdd, WeaponUntracked}
DragonTrees == {WeaponNone100}

WeaponNames == {wGun, wTusk, wDragon}

\* unit ids: in the override tables (in either case) and in none
UnitIds == {<<"e", "7">>, <<"E", "7">>, <<"e", "3">>, <<"4", "t", "n", "k">>, <<"4", "T", "N", "K">>, <<"e", "1">>}

\* lay the trees of the function ws (weapon name -> tree) out in h, one
\* name after the other: the heap and the table of addresses
RECURSIVE AllocWeapons(_, _, _)
AllocWeapons(h, ws, table) ==
    IF DOMAIN ws = DOMAIN table THEN [h |-> h, table |-> table]
    ELSE LET n == CHOOSE n \in DOMAIN ws \ DOMAIN table : TRUE
             r == AllocNode(h, ws[n])
         IN AllocWeapons(r.h, ws, [m \in DOMAIN table \cup {n} |-> IF m = n THEN r.a ELSE table[m]])

\* the weapon tables: each weapon known or not
WeaponTable(ns, g, t, d) ==
    [n \in ns |-> IF n = wGun THEN g ELSE IF n = wTusk THEN t ELSE d]

WeaponTables ==
    {WeaponTable(ns, g, WeaponNone100, WeaponNone100) :
        ns \in {{}, {wGun}, {wGun, wTusk}, {wTusk, wDragon}, {wGun, wTusk, wDragon}}, g \in GunTrees}
    \cup {WeaponTable({wGun, wTusk}, g, t, WeaponNone100) :
        g \in {WeaponNoneHeavy, WeaponOdd}, t \in TuskTrees}

\* a unit id, its resolved definition and the resolved weapons
InitExtractor ==
    \E id \in UnitIds, u \in UnitTrees, ws \in WeaponTables :
        LET ru == AllocNode(<< >>, u)
            rw == AllocWeapons(ru.h, ws, << >>)
        IN /\ unitId = id
           /\ unitDef = ru.a
           /\ store = rw.h
           /\ weapons = rw.table
           /\ out = NoCall

----------------------------------------------------------------------------
(* The attribute extractor.  A multiplier int(pct) / 100.0 is kept as the  *)
(* integer number of hundredths, so 60 stands for 0.6.                      *)

ARMOR_TYPES == <<<<"n", "o", "n", "e">>, <<"l", "i", "g", "h", "t">>, <<"h", "e", "a", "v", "y">>, <<"w", "o", "o", "d">>, <<"c", "o", "n", "c", "r", "e", "t", "e">>>>
ArmorTags == {ARMOR_TYPES[i] : i \in 1..Len(ARMOR_TYPES)}

DIGITS == <<"0", "1", "2", "3", "4", "5", "6", "7", "8", "9">>
IsDigit(c) == \E i \in 1..Len(DIGITS) : DIGITS[i] = c
DigitValue(c) == (CHOOSE i \in 1..Len(DIGITS) : DIGITS[i] = c) - 1

\* the value of a sequence of digits and underscores
RECURSIVE DigitsValue(_, _)
DigitsValue(str, acc) ==
    IF str = << >> THEN acc
    ELSE IF Head(str) = "_" THEN DigitsValue(Tail(str), acc)
    ELSE DigitsValue(Tail(str), 10 * acc + DigitValue(Head(str)))

\* digits, with single underscores between digits
IsDigitString(str) ==
    /\ str # << >>
    /\ \A i \in 1..Len(str) : IsDigit(str[i]) \/ str[i] = "_"
    /\ IsDigit(str[1]) /\ IsDigit(str[Len(str)])
    /\ \A i \in 1..(Len(str) - 1) : ~(str[i] = "_" /\ str[i + 1] = "_")

\* int(str): ok = FALSE stands for ValueError
ParseInt(str) ==
    LET t == RStrip(LStrip(str, IntWhitespace), IntWhitespace)
        signed == t # << >> /\ Head(t) \in {"-", "+"}
        body == IF signed THEN Tail(t) ELSE t
    IN IF IsDigitString(body)
       THEN [ok |-> TRUE, n |-> IF signed /\ Head(t) = "-" THEN 0 - DigitsValue(body, 0) ELSE DigitsValue(body, 0)]
       ELSE [ok |-> FALSE, n |-> 0]

\* sub in str
Contains(str, sub) ==
    \E i \in 1..(Len(str) - Len(sub) + 1) : SubSeq(str, i, i + Len(sub) - 1) = sub

\* dict vs with vs[k] = v
Put(vs, k, v) == [x \in DOMAIN vs \cup {k} |-> IF x = k THEN v ELSE vs[x]]

\* for k, v in vs_node.items(), from entry i on, for one armor; int(pct) of
\* a pct that is a dict raises the TypeError the loop passes over
RECURSIVE VersusEntries(_, _, _, _, _)
VersusEntries(h, t, armor, i, versus) ==
    IF i > Len(h[t]) THEN versus
    ELSE LET e == h[t][i]
             pct == IF e.isd THEN ValueAt(h, e.ref) ELSE Str(e.s)
         IN IF e.k # VALUE_KEY /\ Lower(e.k) = armor /\ ~pct.isd /\ ParseInt(pct.s).ok
            THEN VersusEntries(h, t, armor, i + 1, Put(versus, armor, ParseInt(pct.s).n))
            ELSE VersusEntries(h, t, armor, i + 1, versus)

\* for armor in ARMOR_TYPES, from the j-th on
RECURSIVE VersusArmors(_, _, _, _)
VersusArmors(h, t, j, versus) ==
    IF j > Len(ARMOR_TYPES) THEN versus
    ELSE VersusArmors(h, t, j + 1, VersusEntries(h, t, ARMOR_TYPES[j], 1, versus))

\* x in warhead_type: a substring of a string, a key of a dict
IsIn(h, x, v) == IF v.isd THEN DictHas(h[v.ref], x) ELSE Contains(v.s, x)

\* is the entry a damage warhead: a dict under a key starting with
\* "warhead" in lower case, of a type naming SpreadDamage or TargetDamage
IsDamageWarhead(h, e) ==
    /\ e.isd
    /\ StartsWith(Lower(e.k), <<"w", "a", "r", "h", "e", "a", "d">>)
    /\ \/ IsIn(h, SpreadDamage, ValueAt(h, e.ref))
       \/ IsIn(h, TargetDamage, ValueAt(h, e.ref))

\* the loop of extract_versus over weapon_def.items(), from entry i on
RECURSIVE Warheads(_, _, _, _)
Warheads(h, a, i, versus) ==
    IF i > Len(h[a]) THEN versus
    ELSE LET e == h[a][i] IN
         IF ~IsDamageWarhead(h, e) \/ ~Truthy(h, get_child(h, e.ref, <<kVersus>>))
         THEN Warheads(h, a, i + 1, versus)
         ELSE LET v == VersusArmors(h, get_child(h, e.ref, <<kVersus>>), 1, versus) IN
              IF v # << >> THEN v ELSE Warheads(h, a, i + 1, v)

\* extract_versus(weapon_def) for the dict at address a, 0 being {}
extract_versus(h, a) == IF a = 0 THEN << >> ELSE Warheads(h, a, 1, << >>)

\* get_primary_weapon(unit_def) for the dict at address a: the value
\* get_value returned
get_primary_weapon(h, a) ==
    IF Truthy(h, get_child(h, a, <<kArmamentPrimary>>))
    THEN get_value(h, get_child(h, a, <<kArmamentPrimary>>), <<kWeapon>>)
    ELSE IF Truthy(h, get_child(h, a, <<kArmament>>))
    THEN get_value(h, get_child(h, a, <<kArmament>>), <<kWeapon>>)
    ELSE IF Truthy(h, get_child(h, a, <<kArmamentAG>>))
    THEN get_value(h, get_child(h, a, <<kArmamentAG>>), <<kWeapon>>)
    ELSE IF /\ Truthy(h, get_child(h, a, <<kArmamentSecondary>>))
            /\ IsTrue(h, get_value(h, get_child(h, a, <<kArmamentSecondary>>), <<kWeapon>>))
    THEN get_value(h, get_child(h, a, <<kArmamentSecondary>>), <<kWeapon>>)
    ELSE Str(EMPTY)

\* get_secondary_weapon(unit_def)
get_secondary_weapon(h, a) ==
    IF Truthy(h, get_child(h, a, <<kArmamentSecondary>>))
    THEN get_value(h, get_child(h, a, <<kArmamentSecondary>>), <<kWeapon>>)
    ELSE Str(EMPTY)

\* get_cost(unit_def): int(cost_str) raises ValueError on a text that is no
\* integer and TypeError on a dict, and both give 0
get_cost(h, a) ==
    LET cost_str == get_value(h, a, <<kValued, kCost>>) IN
    IF ~cost_str.isd /\ ParseInt(cost_str.s).ok THEN ParseInt(cost_str.s).n ELSE 0

\* get_armor_type(unit_def): a dict has no lower
get_armor_type(h, a) ==
    LET armor == get_value(h, a, <<kArmor, kType>>) IN
    IF ~IsTrue(h, armor) THEN Returns(<<"n", "o", "n", "e">>)
    ELSE IF armor.isd THEN Raises("AttributeError")
    ELSE Returns(Lower(armor.s))

\* a mapping over the five armor tags, in hundredths
Versus5(none, light, heavy, wood, concrete) ==
    (<<"n", "o", "n", "e">> :> none) @@ (<<"l", "i", "g", "h", "t">> :> light) @@ (<<"h", "e", "a", "v", "y">> :> heavy)
        @@ (<<"w", "o", "o", "d">> :> wood) @@ (<<"c", "o", "n", "c", "r", "e", "t", "e">> :> concrete)

SPECIAL_MODELING ==
    (<<"e", "7">> :> Versus5(1000, 10, 10, 500, 500))
        @@ (<<"s", "p", "y">> :> Versus5(10, 1, 1, 1, 1))
        @@ (<<"d", "o", "g">> :> Versus5(500, 0, 0, 0, 0))
        @@ (<<"s", "s">> :> Versus5(0, 75, 100, 75, 500))

DUAL_WEAPON_UNITS == {<<"4", "t", "n", "k">>}

GROUND_WEAPON_OVERRIDE == (<<"e", "3">> :> wDragon) @@ (<<"h", "e", "l", "i">> :> <<"H", "e", "l", "l", "f", "i", "r", "e", "A", "G">>)

\* uid in SPECIAL_MODELING, never
NeverSpecial(uid) == FALSE

\* uid in SPECIAL_MODELING
IsSpecial(uid) == uid \in DOMAIN SPECIAL_MODELING

\* fill_versus(vs)
fill_versus(vs) == [armor \in ArmorTags |-> IF armor \in DOMAIN vs THEN vs[armor] ELSE 100]

\* binary64 arithmetic.  A float that is a multiple of 2^-FractionBits is
\* kept as that multiple, written in binary: a sequence of bits, the most
\* significant first, without leading zeros.  Every float int(pct) / 100.0
\* of a non-zero pct is at least 2^-7 and has MantissaBits significant
\* bits, so it is such a multiple, and so are the floats count / total and
\* their products with a multiplier for any army that fits in memory.
MantissaBits == 53
FractionBits == 80

\* b without its leading zeros
StripZeros(b) ==
    IF \A i \in 1..Len(b) : b[i] = 0 THEN << >>
    ELSE SubSeq(b, CHOOSE i \in 1..Len(b) : b[i] = 1 /\ \A j \in 1..(i - 1) : b[j] = 0, Len(b))

\* the natural number i in binary
RECURSIVE NatBits(_)
NatBits(i) == IF i = 0 THEN << >> ELSE Append(NatBits(i \div 2), i % 2)

\* 2^i modulo d, for d up to 2^15
RECURSIVE PowerOfTwoMod(_, _)
PowerOfTwoMod(i, d) ==
    IF i <= 15 THEN (2 ^ i) % d ELSE (((2 ^ 15) % d) * PowerOfTwoMod(i - 15, d)) % d

\* the remainder of r * 2^i divided by d
RemainderAt(r, i, d) == (r * PowerOfTwoMod(i, d)) % d

\* the i-th bit after the binary point of r / d, for r < d
FractionBit(r, i, d) == (2 * RemainderAt(r, i - 1, d)) \div d

\* n / d for natural numbers n and d, cut off after FractionBits bits: the
\* bits, and whether anything was cut off
Quotient(n, d) ==
    [bits |-> StripZeros(NatBits(n \div d) \o [i \in 1..FractionBits |-> FractionBit(n % d, i, d)]),
     rest |-> RemainderAt(n % d, FractionBits, d) # 0]

\* n / 100
Hundredths(n) == Quotient(n, 100)

\* b + 1
Inc(b) ==
    IF \A i \in 1..Len(b) : b[i] = 1 THEN <<1>> \o [i \in 1..Len(b) |-> 0]
    ELSE LET last == CHOOSE i \in 1..Len(b) : b[i] = 0 /\ \A j \in (i + 1)..Len(b) : b[j] = 1
         IN [i \in 1..Len(b) |-> IF i < last THEN b[i] ELSE IF i = last THEN 1 ELSE 0]

\* the nearest float, ties to even: b followed by a non-zero tail when
\* rest holds, rounded to MantissaBits significant bits
RoundToFloat(b, rest) ==
    IF Len(b) <= MantissaBits THEN b
    ELSE LET top == SubSeq(b, 1, MantissaBits)
             guard == b[MantissaBits + 1]
             sticky == rest \/ \E i \in (MantissaBits + 2)..Len(b) : b[i] = 1
             zeros == [i \in 1..(Len(b) - MantissaBits) |-> 0]
         IN IF guard = 1 /\ (sticky \/ top[MantissaBits] = 1)
            THEN Inc(top) \o zeros ELSE top \o zeros

\* the float nearest to a quotient cut off
RoundQuotient(q) == RoundToFloat(q.bits, q.rest)

\* the float n / d of two ints
FloatOfQuotient(n, d) == RoundQuotient(Quotient(n, d))

\* the float n / 100.0, for a natural number n, which is the float the
\* literal of n hundredths stands for
FloatOfHundredths(n) == FloatOfQuotient(n, 100)

PadBits(b, n) == [i \in 1..(n - Len(b)) |-> 0] \o b

\* the carry into place i of a + b: a place below i has two ones and every
\* place between has a one
CarryInto(a, b, i) ==
    IF \E j \in (i + 1)..Len(a) :
          a[j] + b[j] = 2 /\ \A k \in (i + 1)..(j - 1) : a[k] + b[k] = 1
    THEN 1 ELSE 0

\* a + b, for a and b of the same length
AddBits(a, b) ==
    (IF CarryInto(a, b, 0) = 1 THEN <<1>> ELSE << >>)
        \o [i \in 1..Len(a) |-> (a[i] + b[i] + CarryInto(a, b, i)) % 2]

\* the borrow from place i of a - b: a place below i has 0 over 1 and the
\* places between have equal bits
BorrowFrom(a, b, i) ==
    IF \E j \in (i + 1)..Len(a) :
          a[j] < b[j] /\ \A k \in (i + 1)..(j - 1) : a[k] = b[k]
    THEN 1 ELSE 0

\* a - b, for a >= b of the same length
SubBits(a, b) == [i \in 1..Len(a) |-> (a[i] - b[i] - BorrowFrom(a, b, i) + 2) % 2]

Longer(a, b) == IF Len(a) > Len(b) THEN Len(a) ELSE Len(b)

\* a < b as numbers
LessBits(a, b) ==
    \/ Len(a) < Len(b)
    \/ /\ Len(a) = Len(b)
       /\ \E i \in 1..Len(a) : a[i] < b[i] /\ \A j \in 1..(i - 1) : a[j] = b[j]

Abs(n) == IF n < 0 THEN 0 - n ELSE n

\* the float a + b of two floats
FloatAdd(a, b) ==
    RoundToFloat(StripZeros(AddBits(PadBits(a, Longer(a, b)), PadBits(b, Longer(a, b)))), FALSE)

\* the float a - b of two floats, a >= b
FloatSub(a, b) ==
    RoundToFloat(StripZeros(SubBits(PadBits(a, Longer(a, b)), PadBits(b, Longer(a, b)))), FALSE)

\* the size of the float a + b or a - b of two sizes
FloatSumOf(a, b, same_sign) ==
    IF same_sign THEN FloatAdd(a, b)
    ELSE IF LessBits(a, b) THEN FloatSub(b, a)
    ELSE FloatSub(a, b)

\* the size of the float p / 100.0 + s / 100.0
FloatSum(p, s) ==
    FloatSumOf(FloatOfHundredths(Abs(p)), FloatOfHundredths(Abs(s)), (p >= 0) = (s >= 0))

\* exact products are made of limbs of LimbBits bits, so that a column of
\* the long multiplication fits a machine integer
LimbBits == 12

\* the number the bits b stand for, for b shorter than 31 bits
RECURSIVE BitsValue(_)
BitsValue(b) ==
    IF b = << >> THEN 0 ELSE 2 * BitsValue(SubSeq(b, 1, Len(b) - 1)) + b[Len(b)]

\* b in limbs, the least significant first
Limbs(b) ==
    [k \in 1..((Len(b) + LimbBits - 1) \div LimbBits) |->
        BitsValue(SubSeq(b, IF Len(b) - k * LimbBits + 1 < 1 THEN 1 ELSE Len(b) - k * LimbBits + 1,
                         Len(b) - (k - 1) * LimbBits))]

\* the sum of x[i] * y[k + 1 - i] over the limbs from i on
RECURSIVE ColumnFrom(_, _, _, _)
ColumnFrom(x, y, k, i) ==
    IF i > Len(x) THEN 0
    ELSE (IF k + 1 - i \in 1..Len(y) THEN x[i] * y[k + 1 - i] ELSE 0) + ColumnFrom(x, y, k, i + 1)

\* the limbs of x * y from limb k on, given the carry into limb k
RECURSIVE ProductLimbs(_, _, _, _)
ProductLimbs(x, y, k, carry) ==
    IF k > Len(x) + Len(y) THEN << >>
    ELSE <<(ColumnFrom(x, y, k, 1) + carry) % (2 ^ LimbBits)>>
            \o ProductLimbs(x, y, k + 1, (ColumnFrom(x, y, k, 1) + carry) \div (2 ^ LimbBits))

\* the bits of limbs, the least significant limb first
RECURSIVE BitsOfLimbs(_)
BitsOfLimbs(limbs) ==
    IF limbs = << >> THEN << >>
    ELSE BitsOfLimbs(Tail(limbs)) \o [i \in 1..LimbBits |-> (limbs[1] \div (2 ^ (LimbBits - i))) % 2]

\* a * b exactly, a multiple of 2^-(2 * FractionBits)
MulBits(a, b) == StripZeros(BitsOfLimbs(ProductLimbs(Limbs(a), Limbs(b), 1, 0)))

\* the float a * b of two floats
FloatProduct(a, b) ==
    LET rounded == RoundToFloat(MulBits(a, b), FALSE)
    IN IF Len(rounded) <= FractionBits THEN << >>
       ELSE SubSeq(rounded, 1, Len(rounded) - FractionBits)

\* the floats 1.0 and 0.5
FloatOne == <<1>> \o [i \in 1..FractionBits |-> 0]
FloatHalf == <<1>> \o [i \in 1..(FractionBits - 1) |-> 0]

\* the primary multiplier alone
PrimaryOnly(p, s) == p

\* the hundredths round gives the half of sum, a float next to the odd
\* number midway of two-hundredths, lower being the hundredths below
SizeOfMean(sum, midway, lower) ==
    IF LessBits(midway.bits, sum) THEN lower + 1
    ELSE IF LessBits(sum, midway.bits) \/ midway.rest THEN lower
    ELSE IF lower % 2 = 0 THEN lower ELSE lower + 1

\* round((p + s) / 2, 2) for the floats p / 100.0 and s / 100.0, in
\* hundredths: an even sum of percentages has its half; an odd one lies
\* midway between two hundredths in decimal, and round goes by the float
\* the sum has become, to the even hundredth when the float is midway too
RoundedMean(p, s) ==
    IF (p + s) % 2 = 0 THEN (p + s) \div 2
    ELSE IF p + s > 0 THEN SizeOfMean(FloatSum(p, s), Hundredths(Abs(p + s)), (Abs(p + s) - 1) \div 2)
    ELSE 0 - SizeOfMean(FloatSum(p, s), Hundredths(Abs(p + s)), (Abs(p + s) - 1) \div 2)

\* vs.get(armor, 1.0)
GetOr100(vs, armor) == IF armor \in DOMAIN vs THEN vs[armor] ELSE 100

\* the dual-weapon averaging of two versus dicts
Combined(primary_vs, sec_vs) ==
    [armor \in DOMAIN primary_vs \cup DOMAIN sec_vs |->
        RoundedMean(GetOr100(primary_vs, armor), GetOr100(sec_vs, armor))]

\* weapons.get(name, {}): the address, 0 for {}
WeaponDef(ws, name) == IF name \in DOMAIN ws THEN ws[name] ELSE 0

\* the weapon name build_versus_for_unit looks up
WeaponNameOf(h, uid, a) ==
    IF uid \in DOMAIN GROUND_WEAPON_OVERRIDE THEN Str(GROUND_WEAPON_OVERRIDE[uid])
    ELSE get_primary_weapon(h, a)

\* build_versus_for_unit once both weapons have versus data
VersusOfBoth(primary_vs, sec_vs) ==
    IF sec_vs # << >> THEN Returns(fill_versus(Combined(primary_vs, sec_vs)))
    ELSE Returns(fill_versus(primary_vs))

\* build_versus_for_unit for a dual-weapon unit, from sec_name on: a
\* sec_name that is a dict raises TypeError (unhashable type) in
\* `sec_name in weapons`
VersusOfDual(h, ws, primary_vs, sec_name) ==
    IF ~IsTrue(h, sec_name) THEN Returns(fill_versus(primary_vs))
    ELSE IF sec_name.isd THEN Raises("TypeError")
    ELSE IF sec_name.s \notin DOMAIN ws THEN Returns(fill_versus(primary_vs))
    ELSE VersusOfBoth(primary_vs, extract_versus(h, ws[sec_name.s]))

\* build_versus_for_unit from primary_vs on
VersusOfPrimary(h, uid, a, ws, primary_vs) ==
    IF primary_vs = << >> THEN Returns(<< >>)
    ELSE IF uid \in DUAL_WEAPON_UNITS
    THEN VersusOfDual(h, ws, primary_vs, get_secondary_weapon(h, a))
    ELSE Returns(fill_versus(primary_vs))

\* build_versus_for_unit from weapon_name on: a weapon_name that is a dict
\* raises TypeError (unhashable type) in weapons.get(weapon_name, {})
VersusOfWeaponName(h, uid, a, ws, weapon_name) ==
    IF ~IsTrue(h, weapon_name) THEN Returns(<< >>)
    ELSE IF weapon_name.isd THEN Raises("TypeError")
    ELSE VersusOfPrimary(h, uid, a, ws, extract_versus(h, WeaponDef(ws, weapon_name.s)))

\* build_versus_for_unit from uid on
VersusOfUid(h, uid, a, ws) ==
    IF IsSpecial(uid) THEN Returns(SPECIAL_MODELING[uid])
    ELSE VersusOfWeaponName(h, uid, a, ws, WeaponNameOf(h, uid, a))

\* build_versus_for_unit(unit_id, unit_def, weapons)
build_versus_for_unit(h, unit_id, a, ws) == VersusOfUid(h, Lower(unit_id), a, ws)

\* the loop body of main for uid once its three calls are made: an
\* exception of get_armor_type or of build_versus_for_unit ends main, and so
\* does the debug line, where format(weapon, "20s") of a weapon that is a
\* dict raises TypeError when vs is not empty; get_cost never raises
EntryOf(uid, armor, versus, weapon) ==
    IF armor.exc # "" THEN Raises(armor.exc)
    ELSE IF versus.exc # "" THEN Raises(versus.exc)
    ELSE IF versus.res # << >> /\ weapon.isd THEN Raises("TypeError")
    ELSE Returns(uid :> versus.res)

\* the vehicle ids of main
VEHICLES ==
    <<<<"1", "t", "n", "k">>, <<"2", "t", "n", "k">>, <<"3", "t", "n", "k">>, <<"4", "t", "n", "k">>,
      <<"v", "2", "r", "l">>, <<"j", "e", "e", "p">>, <<"a", "p", "c">>, <<"a", "r", "t", "y">>,
      <<"h", "a", "r", "v">>, <<"m", "c", "v">>, <<"f", "t", "r", "k">>, <<"m", "n", "l", "y">>,
      <<"t", "t", "n", "k">>, <<"c", "t", "n", "k">>, <<"s", "t", "n", "k">>, <<"q", "t", "n", "k">>,
      <<"d", "t", "r", "k">>, <<"m", "g", "g">>, <<"m", "r", "j">>, <<"t", "r", "u", "k">>>>

\* generate_module when the loop of main has passed over the unit uid, which
\* is in none of unit_armor, unit_cost and unit_effectiveness: the line of
\* UNIT_COST for the vehicles takes the ids that are in unit_cost, the lines
\* for infantry, aircraft and ships read unit_cost[k] and raise KeyError;
\* UNIT_EFFECTIVENESS gets unit_effectiveness.get(uid, {}) for each id
ModuleWithout(uid) ==
    IF \E i \in 1..Len(VEHICLES) : VEHICLES[i] = uid
    THEN Returns(uid :> << >>)
    ELSE Raises("KeyError")

\* main for the unit uid of all_units, the other units being in order: the
\* UNIT_EFFECTIVENESS of the module it writes, or the exception that ends
\* it before a module is written.  uid comes from the lower-case lists of
\* main, the definition at a is units.get(uid.upper(), {}), a being 0 for
\* the {} of a unit the rules do not define; the loop passes over an empty
\* definition
main(h, uid, a, ws) ==
    IF ~Truthy(h, a) THEN ModuleWithout(uid)
    ELSE EntryOf(uid, get_armor_type(h, a), build_versus_for_unit(h, uid, a, ws), WeaponNameOf(h, uid, a))

\* has main written the module
ModuleWritten == main(store, Lower(unitId), unitDef, weapons).exc = ""

\* the table UNIT_EFFECTIVENESS of the module main writes for the unit
UNIT_EFFECTIVENESS == main(store, Lower(unitId), unitDef, weapons).res

\* get_effectiveness(attacker_type, target_armor)
get_effectiveness(table, attacker_type, target_armor) ==
    LET vs == IF Lower(attacker_type) \in DOMAIN table THEN table[Lower(attacker_type)] ELSE << >>
    IN IF vs = << >> THEN 0
       ELSE GetOr100(vs, Lower(target_armor))

\* the paths the accessors are called with on the unit definition
AccessPaths ==
    {<< >>, <<kValued>>, <<kValued, kCost>>, <<kArmor, kType>>, <<kArmor>>,
     <<kArmamentPrimary>>, <<kArmament, kWeapon>>, <<kArmamentSecondary, kWeapon>>,
     <<VALUE_KEY>>, <<kValued, VALUE_KEY>>, <<kValued, VALUE_KEY, kCost>>,
     <<kValued, kCost, kType>>, <<<<"V", "A", "L", "U", "E", "D">>, <<"c", "o", "s", "t">>>>, <<<<"M", "i", "s", "s", "i", "n", "g">>>>}

\* what a call of op(arg) leaves behind: its result or its exception
OutcomeOfCall(op, arg, outcome) == [op |-> op, arg |-> arg, res |-> outcome.res, exc |-> outcome.exc]

\* a call of get_value(unit_def, *keys)
GetValue(keys) ==
    /\ out = NoCall /\ unitDef > 0
    /\ out' = [op |-> "get_value", arg |-> keys, res |-> get_value(store, unitDef, keys), exc |-> ""]
    /\ UNCHANGED <<rvars, pvars, store, unitId, unitDef, weapons, wvars, bvars>>

\* a call of get_child(unit_def, *keys)
GetChild(keys) ==
    /\ out = NoCall /\ unitDef > 0
    /\ out' = [op |-> "get_child", arg |-> keys, res |-> get_child(store, unitDef, keys), exc |-> ""]
    /\ UNCHANGED <<rvars, pvars, store, unitId, unitDef, weapons, wvars, bvars>>

\* a call of extract_versus(weapons[name])
ExtractVersus(name) ==
    /\ out = NoCall /\ name \in DOMAIN weapons
    /\ out' = [op |-> "extract_versus", arg |-> name, res |-> extract_versus(store, weapons[name]), exc |-> ""]
    /\ UNCHANGED <<rvars, pvars, store, unitId, unitDef, weapons, wvars, bvars>>

\* a call of build_versus_for_unit(unit_id, unit_def, weapons)
BuildVersusForUnit ==
    /\ out = NoCall /\ unitDef > 0
    /\ out' = OutcomeOfCall("build_versus_for_unit", unitId, build_versus_for_unit(store, unitId, unitDef, weapons))
    /\ UNCHANGED <<rvars, pvars, store, unitId, unitDef, weapons, wvars, bvars>>

\* a call of get_cost(unit_def)
GetCost ==
    /\ out = NoCall /\ unitDef > 0
    /\ out' = [op |-> "get_cost", arg |-> unitId, res |-> get_cost(store, unitDef), exc |-> ""]
    /\ UNCHANGED <<rvars, pvars, store, unitId, unitDef, weapons, wvars, bvars>>

\* a call of get_armor_type(unit_def)
GetArmorType ==
    /\ out = NoCall /\ unitDef > 0
    /\ out' = OutcomeOfCall("get_armor_type", unitId, get_armor_type(store, unitDef))
    /\ UNCHANGED <<rvars, pvars, store, unitId, unitDef, weapons, wvars, bvars>>

\* the attackers and target armors get_effectiveness is asked about: the
\* unit of the table and a unit the table does not have, the tracked tags,
\* a tag in another case and an untracked tag
AttackerNames == UnitIds \cup {<<"h", "a", "r", "v">>}
TargetArmors == ArmorTags \cup {<<"H", "e", "a", "v", "y">>, <<"s", "t", "e", "e", "l">>}

\* a call of get_effectiveness(attacker_type, target_armor) on the table
\* generated for the unit, when main got to write one
GetEffectiveness(attacker_type, target_armor) ==
    /\ out = NoCall /\ unitDef > 0
    /\ ModuleWritten
    /\ Lower(attacker_type) = Lower(unitId) \/ attacker_type \notin UnitIds
    /\ out' = [op |-> "get_effectiveness", arg |-> <<attacker_type, target_armor>>,
               res |-> get_effectiveness(UNIT_EFFECTIVENESS, attacker_type, target_armor), exc |-> ""]
    /\ UNCHANGED <<rvars, pvars, store, unitId, unitDef, weapons, wvars, bvars>>

\* The extractor alone, over the unit ids, unit definitions and weapon tables
InitExtract == InitExtractor /\ ResolverIdle /\ ParserStart /\ RewardIdle /\ RubricIdle

NextExtract ==
    \/ \E keys \in AccessPaths : GetValue(keys)
    \/ \E keys \in AccessPaths : GetChild(keys)
    \/ \E name \in WeaponNames : ExtractVersus(name)
    \/ BuildVersusForUnit
    \/ GetCost
    \/ GetArmorType
    \/ \E q \in AttackerNames \X TargetArmors : GetEffectiveness(q[1], q[2])

SpecExtract == InitExtract /\ [][NextExtract]_vars

----------------------------------------------------------------------------
(* RewardVectorComputer (openra_rl_util/reward_vector.py).  A reward is    *)
(* kept as an integer number of 1/ONE, so ONE stands for 1.0; the          *)
(* observations explored keep every quotient of the code whole in that     *)
(* unit.  hp_percent is kept in halves: 0, 1, 2 stand for 0.0, 0.5, 1.0.   *)

ONE == 60000
FULL_HP == 2

COMBAT_NORMALIZER == 5000
ECONOMY_NORMALIZER == 10000
HARVESTER_BONUS == (3 * ONE) \div 10
REFINERY_BONUS == (5 * ONE) \div 10
POWER_PLANT_BONUS == (2 * ONE) \div 10
PRODUCTION_BONUS == (2 * ONE) \div 10
TECH_BONUS == (3 * ONE) \div 10
NEW_BUILDING_TYPE_REWARD == (2 * ONE) \div 10
ENEMY_BASE_DISCOVERY_BONUS == (5 * ONE) \div 10
ENEMY_PRODUCTION_DISCOVERY_BONUS == (2 * ONE) \div 10
ENEMY_UNIT_SIGHTING_BONUS == (5 * ONE) \div 100

\* the entries of the tables of damage_matrix.py for the types used here
tE1 == <<"e", "1">>
t3Tnk == <<"3", "t", "n", "k">>
tHarv == <<"h", "a", "r", "v">>
tFact == <<"f", "a", "c", "t">>
tPowr == <<"p", "o", "w", "r">>
tApwr == <<"a", "p", "w", "r">>
tProc == <<"p", "r", "o", "c">>
tBarr == <<"b", "a", "r", "r">>
tTent == <<"t", "e", "n", "t">>
tWeap == <<"w", "e", "a", "p">>
tDome == <<"d", "o", "m", "e">>
tAtek == <<"a", "t", "e", "k">>

\* UNIT_COST
UNIT_COST ==
    (<<"e", "1">> :> 100) @@ (<<"e", "2">> :> 160) @@ (<<"e", "3">> :> 300)
        @@ (<<"e", "4">> :> 300) @@ (<<"e", "6">> :> 500) @@ (<<"e", "7">> :> 1200)
        @@ (<<"m", "e", "d", "i">> :> 200) @@ (<<"m", "e", "c", "h">> :> 500)
        @@ (<<"s", "p", "y">> :> 500) @@ (<<"t", "h", "f">> :> 500)
        @@ (<<"s", "h", "o", "k">> :> 350) @@ (<<"d", "o", "g">> :> 200)
        @@ (<<"1", "t", "n", "k">> :> 700) @@ (<<"2", "t", "n", "k">> :> 800)
        @@ (<<"3", "t", "n", "k">> :> 950) @@ (<<"4", "t", "n", "k">> :> 1700)
        @@ (<<"v", "2", "r", "l">> :> 700) @@ (<<"j", "e", "e", "p">> :> 600)
        @@ (<<"a", "p", "c">> :> 800) @@ (<<"a", "r", "t", "y">> :> 600)
        @@ (<<"h", "a", "r", "v">> :> 1400) @@ (<<"m", "c", "v">> :> 2500)
        @@ (<<"f", "t", "r", "k">> :> 500) @@ (<<"m", "n", "l", "y">> :> 800)
        @@ (<<"t", "t", "n", "k">> :> 1500) @@ (<<"c", "t", "n", "k">> :> 1200)
        @@ (<<"s", "t", "n", "k">> :> 900) @@ (<<"q", "t", "n", "k">> :> 2300)
        @@ (<<"d", "t", "r", "k">> :> 1500) @@ (<<"m", "g", "g">> :> 600)
        @@ (<<"m", "r", "j">> :> 600) @@ (<<"t", "r", "u", "k">> :> 800)
        @@ (<<"h", "e", "l", "i">> :> 1200) @@ (<<"h", "i", "n", "d">> :> 1200)
        @@ (<<"m", "h", "6", "0">> :> 1200) @@ (<<"t", "r", "a", "n">> :> 900)
        @@ (<<"y", "a", "k">> :> 800) @@ (<<"m", "i", "g">> :> 2000) @@ (<<"s", "s">> :> 950)
        @@ (<<"d", "d">> :> 1000) @@ (<<"c", "a">> :> 2000) @@ (<<"p", "t">> :> 500)
        @@ (<<"l", "s", "t">> :> 700) @@ (<<"m", "s", "u", "b">> :> 2000)

\* BUILDING_COST
BUILDING_COST ==
    (<<"f", "a", "c", "t">> :> 2500) @@ (<<"p", "o", "w", "r">> :> 300)
        @@ (<<"a", "p", "w", "r">> :> 500) @@ (<<"b", "a", "r", "r">> :> 500)
        @@ (<<"t", "e", "n", "t">> :> 500) @@ (<<"p", "r", "o", "c">> :> 2000)
        @@ (<<"w", "e", "a", "p">> :> 2000) @@ (<<"d", "o", "m", "e">> :> 1000)
        @@ (<<"f", "i", "x">> :> 1200) @@ (<<"a", "t", "e", "k">> :> 1500)
        @@ (<<"s", "t", "e", "k">> :> 1500) @@ (<<"h", "p", "a", "d">> :> 1500)
        @@ (<<"a", "f", "l", "d">> :> 1000) @@ (<<"s", "p", "e", "n">> :> 650)
        @@ (<<"s", "y", "r", "d">> :> 650) @@ (<<"s", "i", "l", "o">> :> 150)
        @@ (<<"k", "e", "n", "n">> :> 200) @@ (<<"p", "b", "o", "x">> :> 400)
        @@ (<<"h", "b", "o", "x">> :> 600) @@ (<<"g", "u", "n">> :> 600)
        @@ (<<"f", "t", "u", "r">> :> 600) @@ (<<"t", "s", "l", "a">> :> 1500)
        @@ (<<"a", "g", "u", "n">> :> 600) @@ (<<"s", "a", "m">> :> 750)
        @@ (<<"g", "a", "p">> :> 500) @@ (<<"i", "r", "o", "n">> :> 2800)
        @@ (<<"p", "d", "o", "x">> :> 2800) @@ (<<"m", "s", "l", "o">> :> 2500)

\* BUILDING_ARMOR
BUILDING_ARMOR ==
    (<<"f", "a", "c", "t">> :> <<"w", "o", "o", "d">>)
        @@ (<<"p", "o", "w", "r">> :> <<"w", "o", "o", "d">>)
        @@ (<<"a", "p", "w", "r">> :> <<"w", "o", "o", "d">>)
        @@ (<<"b", "a", "r", "r">> :> <<"w", "o", "o", "d">>)
        @@ (<<"t", "e", "n", "t">> :> <<"w", "o", "o", "d">>)
        @@ (<<"p", "r", "o", "c">> :> <<"w", "o", "o", "d">>)
        @@ (<<"w", "e", "a", "p">> :> <<"w", "o", "o", "d">>)
        @@ (<<"d", "o", "m", "e">> :> <<"w", "o", "o", "d">>)
        @@ (<<"f", "i", "x">> :> <<"w", "o", "o", "d">>)
        @@ (<<"a", "t", "e", "k">> :> <<"w", "o", "o", "d">>)
        @@ (<<"s", "t", "e", "k">> :> <<"w", "o", "o", "d">>)
        @@ (<<"h", "p", "a", "d">> :> <<"w", "o", "o", "d">>)
        @@ (<<"a", "f", "l", "d">> :> <<"w", "o", "o", "d">>)
        @@ (<<"s", "p", "e", "n">> :> <<"w", "o", "o", "d">>)
        @@ (<<"s", "y", "r", "d">> :> <<"w", "o", "o", "d">>)
        @@ (<<"s", "i", "l", "o">> :> <<"w", "o", "o", "d">>)
        @@ (<<"k", "e", "n", "n">> :> <<"w", "o", "o", "d">>)
        @@ (<<"p", "b", "o", "x">> :> <<"c", "o", "n", "c", "r", "e", "t", "e">>)
        @@ (<<"h", "b", "o", "x">> :> <<"c", "o", "n", "c", "r", "e", "t", "e">>)
        @@ (<<"g", "u", "n">> :> <<"c", "o", "n", "c", "r", "e", "t", "e">>)
        @@ (<<"f", "t", "u", "r">> :> <<"c", "o", "n", "c", "r", "e", "t", "e">>)
        @@ (<<"t", "s", "l", "a">> :> <<"c", "o", "n", "c", "r", "e", "t", "e">>)
        @@ (<<"a", "g", "u", "n">> :> <<"c", "o", "n", "c", "r", "e", "t", "e">>)
        @@ (<<"s", "a", "m">> :> <<"c", "o", "n", "c", "r", "e", "t", "e">>)
        @@ (<<"g", "a", "p">> :> <<"w", "o", "o", "d">>)
        @@ (<<"i", "r", "o", "n">> :> <<"w", "o", "o", "d">>)
        @@ (<<"p", "d", "o", "x">> :> <<"w", "o", "o", "d">>)
        @@ (<<"m", "s", "l", "o">> :> <<"w", "o", "o", "d">>)

\* UNIT_ARMOR
UNIT_ARMOR ==
    (<<"e", "1">> :> <<"n", "o", "n", "e">>) @@ (<<"e", "2">> :> <<"n", "o", "n", "e">>)
        @@ (<<"e", "3">> :> <<"n", "o", "n", "e">>) @@ (<<"e", "4">> :> <<"n", "o", "n", "e">>)
        @@ (<<"e", "6">> :> <<"n", "o", "n", "e">>) @@ (<<"e", "7">> :> <<"n", "o", "n", "e">>)
        @@ (<<"m", "e", "d", "i">> :> <<"n", "o", "n", "e">>)
        @@ (<<"m", "e", "c", "h">> :> <<"n", "o", "n", "e">>)
        @@ (<<"s", "p", "y">> :> <<"n", "o", "n", "e">>)
        @@ (<<"t", "h", "f">> :> <<"n", "o", "n", "e">>)
        @@ (<<"s", "h", "o", "k">> :> <<"n", "o", "n", "e">>)
        @@ (<<"d", "o", "g">> :> <<"n", "o", "n", "e">>)
        @@ (<<"1", "t", "n", "k">> :> <<"h", "e", "a", "v", "y">>)
        @@ (<<"2", "t", "n", "k">> :> <<"h", "e", "a", "v", "y">>)
        @@ (<<"3", "t", "n", "k">> :> <<"h", "e", "a", "v", "y">>)
        @@ (<<"4", "t", "n", "k">> :> <<"h", "e", "a", "v", "y">>)
        @@ (<<"v", "2", "r", "l">> :> <<"l", "i", "g", "h", "t">>)
        @@ (<<"j", "e", "e", "p">> :> <<"l", "i", "g", "h", "t">>)
        @@ (<<"a", "p", "c">> :> <<"h", "e", "a", "v", "y">>)
        @@ (<<"a", "r", "t", "y">> :> <<"l", "i", "g", "h", "t">>)
        @@ (<<"h", "a", "r", "v">> :> <<"h", "e", "a", "v", "y">>)
        @@ (<<"m", "c", "v">> :> <<"h", "e", "a", "v", "y">>)
        @@ (<<"f", "t", "r", "k">> :> <<"l", "i", "g", "h", "t">>)
        @@ (<<"m", "n", "l", "y">> :> <<"h", "e", "a", "v", "y">>)
        @@ (<<"t", "t", "n", "k">> :> <<"h", "e", "a", "v", "y">>)
        @@ (<<"c", "t", "n", "k">> :> <<"l", "i", "g", "h", "t">>)
        @@ (<<"s", "t", "n", "k">> :> <<"l", "i", "g", "h", "t">>)
        @@ (<<"q", "t", "n", "k">> :> <<"h", "e", "a", "v", "y">>)
        @@ (<<"d", "t", "r", "k">> :> <<"l", "i", "g", "h", "t">>)
        @@ (<<"m", "g", "g">> :> <<"l", "i", "g", "h", "t">>)
        @@ (<<"m", "r", "j">> :> <<"l", "i", "g", "h", "t">>)
        @@ (<<"t", "r", "u", "k">> :> <<"l", "i", "g", "h", "t">>)
        @@ (<<"h", "e", "l", "i">> :> <<"l", "i", "g", "h", "t">>)
        @@ (<<"h", "i", "n", "d">> :> <<"l", "i", "g", "h", "t">>)
        @@ (<<"m", "h", "6", "0">> :> <<"l", "i", "g", "h", "t">>)
        @@ (<<"t", "r", "a", "n">> :> <<"l", "i", "g", "h", "t">>)
        @@ (<<"y", "a", "k">> :> <<"l", "i", "g", "h", "t">>)
        @@ (<<"m", "i", "g">> :> <<"l", "i", "g", "h", "t">>)
        @@ (<<"s", "s">> :> <<"l", "i", "g", "h", "t">>)
        @@ (<<"d", "d">> :> <<"h", "e", "a", "v", "y">>)
        @@ (<<"c", "a">> :> <<"h", "e", "a", "v", "y">>)
        @@ (<<"p", "t">> :> <<"h", "e", "a", "v", "y">>)
        @@ (<<"l", "s", "t">> :> <<"h", "e", "a", "v", "y">>)
        @@ (<<"m", "s", "u", "b">> :> <<"l", "i", "g", "h", "t">>)

\* UNIT_EFFECTIVENESS, in hundredths; << >> is the {} of a unit that cannot attack
UNIT_EFFECTIVENESS_TABLE ==
    (<<"e", "1">> :> Versus5(150, 40, 10, 30, 10))
        @@ (<<"e", "2">> :> Versus5(60, 25, 25, 100, 100))
        @@ (<<"e", "3">> :> Versus5(10, 34, 100, 74, 50))
        @@ (<<"e", "4">> :> Versus5(90, 50, 25, 50, 25)) @@ (<<"e", "6">> :> << >>)
        @@ (<<"e", "7">> :> Versus5(1000, 10, 10, 500, 500)) @@ (<<"m", "e", "d", "i">> :> << >>)
        @@ (<<"m", "e", "c", "h">> :> << >>) @@ (<<"s", "p", "y">> :> Versus5(10, 1, 1, 1, 1))
        @@ (<<"t", "h", "f">> :> << >>)
        @@ (<<"s", "h", "o", "k">> :> Versus5(1000, 100, 60, 73, 100))
        @@ (<<"d", "o", "g">> :> Versus5(500, 0, 0, 0, 0))
        @@ (<<"1", "t", "n", "k">> :> Versus5(32, 116, 48, 52, 32))
        @@ (<<"2", "t", "n", "k">> :> Versus5(30, 75, 115, 75, 50))
        @@ (<<"3", "t", "n", "k">> :> Versus5(30, 75, 115, 75, 50))
        @@ (<<"4", "t", "n", "k">> :> Versus5(65, 68, 70, 75, 50))
        @@ (<<"v", "2", "r", "l">> :> Versus5(90, 70, 40, 75, 100))
        @@ (<<"j", "e", "e", "p">> :> Versus5(120, 72, 28, 60, 28))
        @@ (<<"a", "p", "c">> :> Versus5(120, 72, 28, 60, 28))
        @@ (<<"a", "r", "t", "y">> :> Versus5(60, 60, 25, 40, 50))
        @@ (<<"h", "a", "r", "v">> :> << >>) @@ (<<"m", "c", "v">> :> << >>)
        @@ (<<"f", "t", "r", "k">> :> Versus5(40, 60, 10, 10, 20))
        @@ (<<"m", "n", "l", "y">> :> << >>)
        @@ (<<"t", "t", "n", "k">> :> Versus5(1000, 100, 100, 60, 100))
        @@ (<<"c", "t", "n", "k">> :> Versus5(10, 34, 100, 74, 50))
        @@ (<<"s", "t", "n", "k">> :> Versus5(10, 34, 100, 74, 50))
        @@ (<<"q", "t", "n", "k">> :> << >>) @@ (<<"d", "t", "r", "k">> :> << >>)
        @@ (<<"m", "g", "g">> :> << >>) @@ (<<"m", "r", "j">> :> << >>)
        @@ (<<"t", "r", "u", "k">> :> << >>)
        @@ (<<"h", "e", "l", "i">> :> Versus5(30, 90, 100, 90, 100))
        @@ (<<"h", "i", "n", "d">> :> Versus5(144, 72, 28, 60, 28))
        @@ (<<"m", "h", "6", "0">> :> Versus5(120, 72, 28, 60, 28))
        @@ (<<"t", "r", "a", "n">> :> << >>) @@ (<<"y", "a", "k">> :> Versus5(100, 60, 25, 50, 25))
        @@ (<<"m", "i", "g">> :> Versus5(30, 90, 115, 90, 100))
        @@ (<<"s", "s">> :> Versus5(0, 75, 100, 75, 500))
        @@ (<<"d", "d">> :> Versus5(28, 72, 100, 72, 48))
        @@ (<<"c", "a">> :> Versus5(60, 60, 25, 35, 100))
        @@ (<<"p", "t">> :> Versus5(28, 72, 100, 72, 48)) @@ (<<"l", "s", "t">> :> << >>)
        @@ (<<"m", "s", "u", "b">> :> Versus5(80, 48, 30, 50, 100))

ECONOMIC_BUILDINGS == {tProc, <<"s", "i", "l", "o">>}
PRODUCTION_BUILDINGS == {tBarr, tTent, tWeap, <<"h", "p", "a", "d">>, <<"a", "f", "l", "d">>, <<"s", "p", "e", "n">>, <<"s", "y", "r", "d">>, <<"k", "e", "n", "n">>}
TECH_BUILDINGS == {tDome, tAtek, <<"s", "t", "e", "k">>, <<"f", "i", "x">>}
POWER_BUILDINGS == {tPowr, tApwr}

\* get_unit_cost(unit_type)
get_unit_cost(unit_type) ==
    IF Lower(unit_type) \in DOMAIN UNIT_COST THEN UNIT_COST[Lower(unit_type)] ELSE 0

\* get_building_cost(building_type)
get_building_cost(building_type) ==
    IF Lower(building_type) \in DOMAIN BUILDING_COST THEN BUILDING_COST[Lower(building_type)] ELSE 0

\* get_building_armor(building_type)
get_building_armor(building_type) ==
    IF Lower(building_type) \in DOMAIN BUILDING_ARMOR
    THEN BUILDING_ARMOR[Lower(building_type)] ELSE <<"w", "o", "o", "d">>

\* BUILDING_COST.get(etype.lower(), 500)
BuildingCostOr500(btype) ==
    IF Lower(btype) \in DOMAIN BUILDING_COST THEN BUILDING_COST[Lower(btype)] ELSE 500

\* get_unit_armor(unit_type)
get_unit_armor(unit_type) ==
    IF Lower(unit_type) \in DOMAIN UNIT_ARMOR THEN UNIT_ARMOR[Lower(unit_type)] ELSE <<"n", "o", "n", "e">>

\* can_attack(unit_type)
can_attack(unit_type) ==
    /\ Lower(unit_type) \in DOMAIN UNIT_EFFECTIVENESS_TABLE
    /\ UNIT_EFFECTIVENESS_TABLE[Lower(unit_type)] # << >>

\* the reward as computed, without the bounds
Unclamped(reward) == reward

\* max(-1.0, min(1.0, reward))
Clamp(reward) ==
    IF reward > ONE THEN ONE ELSE IF reward < 0 - ONE THEN 0 - ONE ELSE reward

\* sum of f[x] over the set S
RECURSIVE SumOver(_, _)
SumOver(S, f) ==
    IF S = {} THEN 0
    ELSE LET x == CHOOSE x \in S : TRUE IN f[x] + SumOver(S \ {x}, f)

\* sum of the sequence q of numbers
SumSeq(q) == SumOver(DOMAIN q, q)

\* {a.get("actor_id", 0): a.get("hp_percent", 1.0) for a in actors if a.get("actor_id")}
\* : a later actor with the same id replaces an earlier one
RECURSIVE HpById(_, _)
HpById(actors, hp) ==
    IF actors = << >> THEN hp
    ELSE LET a == Head(actors) IN
         IF a.actor_id # 0 THEN HpById(Tail(actors), Put(hp, a.actor_id, a.hp_percent))
         ELSE HpById(Tail(actors), hp)

\* the non-empty lower-case types of the actors
TypesOf(actors) == {Lower(actors[i].type) : i \in {j \in 1..Len(actors) : actors[j].type # EMPTY}}

\* how many of the actors have a lower-case type in the set S
CountIn(actors, S) == Cardinality({i \in 1..Len(actors) : Lower(actors[i].type) \in S})

\* RewardVectorState(): the tracking state of a new episode
RewardVectorState ==
    [prev_kills_cost |-> 0, prev_deaths_cost |-> 0, prev_order_count |-> 0,
     prev_cash |-> 0, prev_ore |-> 0, prev_assets_value |-> 0, prev_harvester_count |-> 0,
     prev_own_unit_hp |-> << >>, prev_own_building_hp |-> << >>,
     prev_enemy_unit_hp |-> << >>, prev_enemy_building_hp |-> << >>,
     discovered_enemy_building_types |-> {}, discovered_enemy_base |-> FALSE,
     prev_visible_enemy_ids |-> {}, own_building_types_built |-> {},
     prev_enemy_building_count |-> 0, prev_enemy_power_buildings |-> 0,
     prev_enemy_production_buildings |-> 0, prev_enemy_tech_buildings |-> 0]

\* prev_hp - hp of an actor that was tracked on the previous tick and has
\* lost hit points since (if prev_hp is not None and hp < prev_hp), else 0
HpLost(a, prev) ==
    IF a.actor_id \in DOMAIN prev /\ a.hp_percent < prev[a.actor_id]
    THEN prev[a.actor_id] - a.hp_percent ELSE 0

\* the sum over units of get_unit_cost(type) * (prev_hp - hp) / COMBAT_NORMALIZER
UnitDamageValue(actors, prev) ==
    SumSeq([i \in 1..Len(actors) |->
        (get_unit_cost(actors[i].type) * HpLost(actors[i], prev) * ONE) \div (FULL_HP * COMBAT_NORMALIZER)])

\* the sum over buildings of BUILDING_COST.get(type.lower(), 500) * (prev_hp - hp) / COMBAT_NORMALIZER
BuildingDamageValue(actors, prev) ==
    SumSeq([i \in 1..Len(actors) |->
        (BuildingCostOr500(actors[i].type) * HpLost(actors[i], prev) * ONE) \div (FULL_HP * COMBAT_NORMALIZER)])

\* _compute_combat before the final clamp
CombatReward(s, o) ==
    LET kills_delta == o.military.kills_cost - s.prev_kills_cost
        deaths_delta == o.military.deaths_cost - s.prev_deaths_cost
    IN (kills_delta - deaths_delta) * (ONE \div COMBAT_NORMALIZER)
         + UnitDamageValue(o.visible_enemies, s.prev_enemy_unit_hp)
         + BuildingDamageValue(o.visible_enemy_buildings, s.prev_enemy_building_hp)
         - UnitDamageValue(o.units, s.prev_own_unit_hp)
         - BuildingDamageValue(o.buildings, s.prev_own_building_hp)

_compute_combat(s, o) == Clamp(CombatReward(s, o))

\* max(cash + assets, 1)
InvestmentBase(o) ==
    IF o.economy.cash + o.military.assets_value > 1
    THEN o.economy.cash + o.military.assets_value ELSE 1

\* the enemy buildings that were alive on the previous tick and are at
\* hp <= 0 now, of an economic type
RefineriesDestroyed(s, o) ==
    Cardinality({i \in 1..Len(o.visible_enemy_buildings) :
        LET eb == o.visible_enemy_buildings[i] IN
        /\ eb.actor_id \in DOMAIN s.prev_enemy_building_hp
        /\ s.prev_enemy_building_hp[eb.actor_id] > 0
        /\ eb.hp_percent <= 0
        /\ Lower(eb.type) \in ECONOMIC_BUILDINGS})

\* _compute_economy before the final clamp
EconomyReward(s, o) ==
    LET prev_total == s.prev_cash + s.prev_ore + s.prev_assets_value
        curr_total == o.economy.cash + o.economy.ore + o.military.assets_value
        econ_delta == curr_total - prev_total
        den == InvestmentBase(o)
        \* (econ_delta / ECONOMY_NORMALIZER) * (0.5 + 0.5 * assets / den)
        growth == (econ_delta * (ONE \div ECONOMY_NORMALIZER) * (den + o.military.assets_value)) \div (2 * den)
        lost == s.prev_harvester_count - o.economy.harvester_count
    IN growth + REFINERY_BONUS * RefineriesDestroyed(s, o)
         - (IF lost > 0 THEN HARVESTER_BONUS * lost ELSE 0)

_compute_economy(s, o) == Clamp(EconomyReward(s, o))

\* _compute_infrastructure before the final clamp
InfrastructureReward(s, o) ==
    LET new_types == TypesOf(o.buildings) \ s.own_building_types_built
        tech_reward == Cardinality(new_types) * NEW_BUILDING_TYPE_REWARD
        total_production_buildings == CountIn(o.buildings, PRODUCTION_BUILDINGS)
        producing_count ==
            Cardinality({i \in 1..Len(o.buildings) :
                Lower(o.buildings[i].type) \in PRODUCTION_BUILDINGS /\ o.buildings[i].is_producing})
        production_util ==
            IF total_production_buildings > 0
            THEN (producing_count * ONE) \div total_production_buildings ELSE 0
        surplus == o.economy.power_provided - o.economy.power_drained
        power_health == Clamp((surplus * ONE) \div 100)
    IN (tech_reward + production_util + power_health) \div 3

_compute_infrastructure(s, o) == Clamp(InfrastructureReward(s, o))

\* the non-zero actor ids of the actors
IdsOf(actors) == {actors[i].actor_id : i \in 1..Len(actors)} \ {0}

\* the loop paying the bonus of a production building each time it is seen
RECURSIVE DiscoverEachTime(_, _, _, _)
DiscoverEachTime(ebs, types, base, reward) ==
    IF ebs = << >> THEN [reward |-> reward, types |-> types, base |-> base]
    ELSE LET btype == Lower(Head(ebs).type) IN
         IF btype # EMPTY
         THEN DiscoverEachTime(Tail(ebs), types \cup {btype}, TRUE,
                       reward + (IF btype \in PRODUCTION_BUILDINGS THEN ENEMY_PRODUCTION_DISCOVERY_BONUS ELSE 0)
                              + (IF ~base THEN ENEMY_BASE_DISCOVERY_BONUS ELSE 0))
         ELSE DiscoverEachTime(Tail(ebs), types, base, reward)

\* the loop of _compute_intelligence over the enemy buildings: the reward
\* so far, and the discovered types and the base flag it updates
RECURSIVE Discover(_, _, _, _)
Discover(ebs, types, base, reward) ==
    IF ebs = << >> THEN [reward |-> reward, types |-> types, base |-> base]
    ELSE LET btype == Lower(Head(ebs).type) IN
         IF btype # EMPTY /\ btype \notin types
         THEN Discover(Tail(ebs), types \cup {btype}, TRUE,
                       reward + (IF btype \in PRODUCTION_BUILDINGS THEN ENEMY_PRODUCTION_DISCOVERY_BONUS ELSE 0)
                              + (IF ~base THEN ENEMY_BASE_DISCOVERY_BONUS ELSE 0))
         ELSE Discover(Tail(ebs), types, base, reward)

\* the reward with every visible enemy counted as a new sighting
IntelligenceOfAllVisible(s, o) ==
    Discover(o.visible_enemy_buildings, s.discovered_enemy_building_types,
             s.discovered_enemy_base, Cardinality(IdsOf(o.visible_enemies)) * ENEMY_UNIT_SIGHTING_BONUS)

\* _compute_intelligence before the final clamp, with the state it leaves
Intelligence(s, o) ==
    LET new_sightings == IdsOf(o.visible_enemies) \ s.prev_visible_enemy_ids
    IN Discover(o.visible_enemy_buildings, s.discovered_enemy_building_types,
                s.discovered_enemy_base, Cardinality(new_sightings) * ENEMY_UNIT_SIGHTING_BONUS)

_compute_intelligence(s, o) == Clamp(Intelligence(s, o).reward)

\* an entry of obs["units"] or obs["visible_enemies"]
UnitActor(id, type, hp, idle) ==
    [actor_id |-> id, type |-> type, hp_percent |-> hp, is_idle |-> idle]

\* an entry of obs["buildings"] or obs["visible_enemy_buildings"]
BuildingActor(id, type, hp, producing) ==
    [actor_id |-> id, type |-> type, hp_percent |-> hp, is_producing |-> producing]

\* the player's side of an observation: nothing yet, every key at its default
OwnNothing ==
    [military |-> [kills_cost |-> 0, deaths_cost |-> 0, assets_value |-> 0, order_count |-> 0],
     economy |-> [cash |-> 0, ore |-> 0, harvester_count |-> 0, power_provided |-> 0, power_drained |-> 0],
     units |-> << >>,
     buildings |-> << >>]

\* an army with a busy factory and a power surplus
OwnArmy ==
    [military |-> [kills_cost |-> 20000, deaths_cost |-> 0, assets_value |-> 1000, order_count |-> 10],
     economy |-> [cash |-> 1000, ore |-> 1000, harvester_count |-> 5, power_provided |-> 300, power_drained |-> 100],
     units |-> <<UnitActor(1, tE1, 2, TRUE), UnitActor(2, tHarv, 2, TRUE)>>,
     buildings |-> <<BuildingActor(11, tFact, 2, FALSE), BuildingActor(12, tWeap, 2, TRUE),
                     BuildingActor(13, tBarr, 2, FALSE)>>]

\* the army after a lost battle: damaged, its harvesters gone, its power short
OwnBeaten ==
    [military |-> [kills_cost |-> 20000, deaths_cost |-> 30000, assets_value |-> 1500, order_count |-> 12],
     economy |-> [cash |-> 500, ore |-> 0, harvester_count |-> 0, power_provided |-> 0, power_drained |-> 500],
     units |-> <<UnitActor(1, <<"E", "1">>, 1, FALSE), UnitActor(3, t3Tnk, 2, TRUE)>>,
     buildings |-> <<BuildingActor(11, tFact, 1, FALSE)>>]

OwnSides == {OwnNothing, OwnArmy, OwnBeaten}

\* the enemy's side of an observation: nothing visible
EnemyUnseen ==
    [visible_enemies |-> << >>, visible_enemy_buildings |-> << >>]

\* a small base
EnemyBase ==
    [visible_enemies |-> <<UnitActor(21, tE1, 2, TRUE), UnitActor(22, t3Tnk, 2, TRUE)>>,
     visible_enemy_buildings |-> <<BuildingActor(31, tPowr, 2, FALSE), BuildingActor(32, tProc, 2, FALSE),
                                   BuildingActor(33, <<"B", "A", "R", "R">>, 2, FALSE)>>]

\* the base under attack, a refinery destroyed
EnemyAttacked ==
    [visible_enemies |-> <<UnitActor(21, tE1, 1, TRUE)>>,
     visible_enemy_buildings |-> <<BuildingActor(32, tProc, 0, FALSE), BuildingActor(33, tBarr, 1, FALSE)>>]

\* a large base, with a unit that has no actor id
EnemyLargeBase ==
    [visible_enemies |-> <<UnitActor(23, tHarv, 2, TRUE), UnitActor(0, tE1, 2, TRUE)>>,
     visible_enemy_buildings |-> <<BuildingActor(31, tPowr, 2, FALSE), BuildingActor(34, tApwr, 2, FALSE),
                                   BuildingActor(33, tBarr, 2, FALSE), BuildingActor(35, tWeap, 2, FALSE),
                                   BuildingActor(36, tTent, 2, FALSE), BuildingActor(37, tDome, 2, FALSE),
                                   BuildingActor(38, tAtek, 2, FALSE)>>]

EnemySides == {EnemyUnseen, EnemyBase, EnemyAttacked, EnemyLargeBase}

\* obs["done"] and obs["result"] of a game going on
Running == [done |-> FALSE, result |-> EMPTY]

\* obs["done"] and obs["result"]
Endings ==
    {Running, [done |-> FALSE, result |-> <<"w", "i", "n">>],
     [done |-> TRUE, result |-> <<"w", "i", "n">>], [done |-> TRUE, result |-> <<"l", "o", "s", "e">>],
     [done |-> TRUE, result |-> <<"d", "r", "a", "w">>]}

\* the sides the observations that name a result are made of
FinalSides ==
    {OwnNothing @@ EnemyUnseen, OwnArmy @@ EnemyBase, OwnArmy @@ EnemyAttacked,
     OwnBeaten @@ EnemyLargeBase}

\* the observations compute is called with
Observations ==
    {own @@ enemy @@ Running : <<own, enemy>> \in OwnSides \X EnemySides}
        \cup {side @@ end : <<side, end>> \in FinalSides \X (Endings \ {Running})}

\* enemy_armors of compute_army_counter_score: how many enemies wear armor
ArmorCount(enemy_units, armor) ==
    Cardinality({i \in 1..Len(enemy_units) : get_unit_armor(enemy_units[i].type) = armor})

\* the keys of enemy_armors from unit i on, in the order the loop inserts
\* them: an armor is listed where its first unit stands
RECURSIVE ArmorsFrom(_, _)
ArmorsFrom(enemy_units, i) ==
    IF i > Len(enemy_units) THEN << >>
    ELSE IF \E j \in 1..(i - 1) :
               get_unit_armor(enemy_units[j].type) = get_unit_armor(enemy_units[i].type)
         THEN ArmorsFrom(enemy_units, i + 1)
         ELSE <<get_unit_armor(enemy_units[i].type)>> \o ArmorsFrom(enemy_units, i + 1)

\* avg_eff after the first k armors of enemy_armors, a float
RECURSIVE AvgEff(_, _, _, _)
AvgEff(utype, enemy_units, armors, k) ==
    IF k = 0 THEN << >>
    ELSE FloatAdd(AvgEff(utype, enemy_units, armors, k - 1),
                  FloatProduct(FloatOfHundredths(get_effectiveness(UNIT_EFFECTIVENESS_TABLE, utype, armors[k])),
                               FloatOfQuotient(ArmorCount(enemy_units, armors[k]), Len(enemy_units))))

\* avg_eff of compute_army_counter_score for an own unit of type utype
avg_eff(utype, enemy_units) ==
    AvgEff(utype, enemy_units, ArmorsFrom(enemy_units, 1), Len(ArmorsFrom(enemy_units, 1)))

\* compute_army_counter_score(own_units, enemy_units): <<counter, vulnerability>>
compute_army_counter_score(own_units, enemy_units) ==
    IF own_units = << >> \/ enemy_units = << >> THEN <<ONE \div 2, ONE \div 2>>
    ELSE LET own_combat == {i \in 1..Len(own_units) : can_attack(own_units[i].type)}
             effective == {i \in own_combat :
                 ~LessBits(avg_eff(own_units[i].type, enemy_units), FloatOne)}
             vulnerable == {i \in own_combat :
                 LessBits(avg_eff(own_units[i].type, enemy_units), FloatHalf)}
         IN IF own_combat = {} THEN <<0, ONE>>
            ELSE <<(Cardinality(effective) * ONE) \div Cardinality(own_combat),
                   (Cardinality(vulnerable) * ONE) \div Cardinality(own_combat)>>

\* compute_army_counter_score of the armies of Observations, each score
\* worked out once
CounterScores ==
    [o \in Observations |-> compute_army_counter_score(o.units, o.visible_enemies)]

\* _compute_composition(own_units, enemies)
_compute_composition(s, o) ==
    IF o.units = << >> \/ o.visible_enemies = << >> THEN 0
    ELSE LET score == IF o \in DOMAIN CounterScores THEN CounterScores[o]
                      ELSE compute_army_counter_score(o.units, o.visible_enemies)
         IN Clamp(score[1] - score[2])

\* _compute_tempo before the final clamp
TempoReward(s, o) ==
    LET combat_units == {i \in 1..Len(o.units) : can_attack(o.units[i].type)}
        idle_combat == Cardinality({i \in combat_units : o.units[i].is_idle})
        idle_penalty ==
            IF combat_units # {}
            THEN (idle_combat * ONE) \div (Cardinality(combat_units) * 10) ELSE 0
        order_delta == o.military.order_count - s.prev_order_count
        order_rate == IF order_delta >= 5 THEN ONE ELSE (order_delta * ONE) \div 5
    IN (order_rate * 5) \div 100 - idle_penalty

_compute_tempo(s, o) ==
    IF o.units = << >> THEN 0 ELSE Clamp(TempoReward(s, o))

\* how many of the lost buildings of a kind there are since the last tick
Lost(prev, now) == IF now < prev THEN prev - now ELSE 0

\* how many of the actors have a type, as it is spelt, in the set S
CountSpelt(actors, S) == Cardinality({i \in 1..Len(actors) : actors[i].type \in S})

\* the reward with the buildings of this tick counted by their type as spelt
DisruptionBySpelling(s, o) ==
    IF s.prev_enemy_building_count > 0
    THEN Lost(s.prev_enemy_power_buildings, CountSpelt(o.visible_enemy_buildings, POWER_BUILDINGS)) * POWER_PLANT_BONUS
           + Lost(s.prev_enemy_production_buildings, CountSpelt(o.visible_enemy_buildings, PRODUCTION_BUILDINGS)) * PRODUCTION_BONUS
           + Lost(s.prev_enemy_tech_buildings, CountSpelt(o.visible_enemy_buildings, TECH_BUILDINGS)) * TECH_BONUS
    ELSE 0

\* _compute_disruption before the final clamp
DisruptionReward(s, o) ==
    IF s.prev_enemy_building_count > 0
    THEN Lost(s.prev_enemy_power_buildings, CountIn(o.visible_enemy_buildings, POWER_BUILDINGS)) * POWER_PLANT_BONUS
           + Lost(s.prev_enemy_production_buildings, CountIn(o.visible_enemy_buildings, PRODUCTION_BUILDINGS)) * PRODUCTION_BONUS
           + Lost(s.prev_enemy_tech_buildings, CountIn(o.visible_enemy_buildings, TECH_BUILDINGS)) * TECH_BONUS
    ELSE 0

_compute_disruption(s, o) == Clamp(DisruptionReward(s, o))

\* the outcome taken from the result alone, whether the game is done or not
OutcomeOfResult(o) ==
    IF o.result = <<"w", "i", "n">> THEN ONE
    ELSE IF o.result = <<"l", "o", "s", "e">> THEN 0 - ONE
    ELSE 0

\* vector.outcome: set only when the observation is done
OutcomeOf(o) ==
    IF o.done /\ o.result = <<"w", "i", "n">> THEN ONE
    ELSE IF o.done /\ o.result = <<"l", "o", "s", "e">> THEN 0 - ONE
    ELSE 0

\* the RewardVector compute(obs) returns from the tracking state s
RewardVector(s, o) ==
    [combat |-> _compute_combat(s, o),
     economy |-> _compute_economy(s, o),
     infrastructure |-> _compute_infrastructure(s, o),
     intelligence |-> _compute_intelligence(s, o),
     composition |-> _compute_composition(s, o),
     tempo |-> _compute_tempo(s, o),
     disruption |-> _compute_disruption(s, o),
     outcome |-> OutcomeOf(o)]

\* the tracking state compute(obs) leaves: the discoveries of
\* _compute_intelligence, then _update_state
_update_state(s, o) ==
    [prev_kills_cost |-> o.military.kills_cost,
     prev_deaths_cost |-> o.military.deaths_cost,
     prev_order_count |-> o.military.order_count,
     prev_cash |-> o.economy.cash,
     prev_ore |-> o.economy.ore,
     prev_assets_value |-> o.military.assets_value,
     prev_harvester_count |-> o.economy.harvester_count,
     prev_own_unit_hp |-> HpById(o.units, << >>),
     prev_own_building_hp |-> HpById(o.buildings, << >>),
     prev_enemy_unit_hp |-> HpById(o.visible_enemies, << >>),
     prev_enemy_building_hp |-> HpById(o.visible_enemy_buildings, << >>),
     discovered_enemy_building_types |-> Intelligence(s, o).types,
     discovered_enemy_base |-> Intelligence(s, o).base,
     prev_visible_enemy_ids |-> IdsOf(o.visible_enemies),
     own_building_types_built |-> s.own_building_types_built \cup TypesOf(o.buildings),
     prev_enemy_building_count |-> Len(o.visible_enemy_buildings),
     prev_enemy_power_buildings |-> CountIn(o.visible_enemy_buildings, POWER_BUILDINGS),
     prev_enemy_production_buildings |-> CountIn(o.visible_enemy_buildings, PRODUCTION_BUILDINGS),
     prev_enemy_tech_buildings |-> CountIn(o.visible_enemy_buildings, TECH_BUILDINGS)]

\* computer.compute(o), and the same call on the newly constructed computer
Compute(o) ==
    /\ tracker' = _update_state(tracker, o)
    /\ obs' = <<o>>
    /\ vector' = <<RewardVector(tracker, o)>>
    /\ newState' = _update_state(newState, o)
    /\ newVector' = <<RewardVector(newState, o)>>
    /\ seenTypes' = seenTypes \cup TypesOf(o.visible_enemy_buildings)
    /\ UNCHANGED discarded
    /\ UNCHANGED <<rvars, pvars, evars, bvars>>

\* the state of a computer that forgets the previous tick but not what the
\* episode discovered and built
ResetPreviousTick(s) ==
    [RewardVectorState EXCEPT
        !.discovered_enemy_building_types = s.discovered_enemy_building_types,
        !.discovered_enemy_base = s.discovered_enemy_base,
        !.own_building_types_built = s.own_building_types_built]

\* self._state = RewardVectorState(), in reset, replacing the state s
reset(s) == RewardVectorState

\* a tracking state with a previous tick, discoveries and built types to forget
HasMemories(s) ==
    /\ s.prev_kills_cost > 0 /\ s.prev_visible_enemy_ids # {}
    /\ s.discovered_enemy_base /\ s.discovered_enemy_building_types # {}
    /\ s.own_building_types_built # {}

\* computer.reset(); the computer to compare with is constructed anew
Reset ==
    /\ tracker' = reset(tracker)
    /\ newState' = RewardVectorState
    /\ obs' = << >> /\ vector' = << >> /\ newVector' = << >>
    /\ discarded' = <<HasMemories(tracker)>>
    /\ seenTypes' = {}
    /\ UNCHANGED <<rvars, pvars, evars, bvars>>

\* RewardVectorComputer(): no call of compute made yet
InitReward ==
    /\ tracker = RewardVectorState /\ obs = << >> /\ vector = << >>
    /\ newState = RewardVectorState /\ newVector = << >>
    /\ discarded = << >> /\ seenTypes = {}
    /\ ResolverIdle /\ ParserStart /\ ExtractorIdle /\ RubricIdle

NextReward ==
    \/ \E o \in Observations : Compute(o)
    \/ Reset

SpecReward == InitReward /\ [][NextReward]_vars

----------------------------------------------------------------------------
(* The lookup functions of damage_matrix.py on the shipped tables.          *)

\* the types the lookups are called with: every key of the tables, some in
\* upper case, and names no table has
TypeNames ==
    DOMAIN UNIT_COST \cup DOMAIN BUILDING_COST \cup DOMAIN BUILDING_ARMOR
        \cup {<<"E", "1">>, <<"4", "T", "N", "K">>, <<"T", "s", "l", "a">>,
              <<"n", "o", "n", "e", "x", "i", "s", "t", "e", "n", "t">>, EMPTY}

\* get_unit_cost(unit_type)
GetUnitCost(unit_type) ==
    /\ out' = [op |-> "get_unit_cost", arg |-> unit_type, res |-> get_unit_cost(unit_type), exc |-> ""]
    /\ UNCHANGED <<rvars, pvars, store, unitId, unitDef, weapons, wvars, bvars>>

\* get_building_cost(building_type)
GetBuildingCost(building_type) ==
    /\ out' = [op |-> "get_building_cost", arg |-> building_type, res |-> get_building_cost(building_type), exc |-> ""]
    /\ UNCHANGED <<rvars, pvars, store, unitId, unitDef, weapons, wvars, bvars>>

\* get_building_armor(building_type)
GetBuildingArmor(building_type) ==
    /\ out' = [op |-> "get_building_armor", arg |-> building_type, res |-> get_building_armor(building_type), exc |-> ""]
    /\ UNCHANGED <<rvars, pvars, store, unitId, unitDef, weapons, wvars, bvars>>

InitLookup == ExtractorIdle /\ ResolverIdle /\ ParserStart /\ RewardIdle /\ RubricIdle

NextLookup ==
    \/ \E unit_type \in TypeNames : GetUnitCost(unit_type)
    \/ \E building_type \in TypeNames : GetBuildingCost(building_type)
    \/ \E building_type \in TypeNames : GetBuildingArmor(building_type)

SpecLookup == InitLookup /\ [][NextLookup]_vars

----------------------------------------------------------------------------
(* OpenRABenchRubric (openra_rl_util/rubrics.py, rubric_base.py) and the     *)
(* composite score of compute_composite_score_from_games.  A score is kept  *)
(* as an integer number of 1/ONE, like a reward; the observations explored  *)
(* keep every quotient whole in that unit.                                  *)

MaxSteps == 2

\* the child rubrics of OpenRABenchRubric, in the order of _rubric_list
Children == <<"win_loss", "military", "economy", "speed">>

\* weights=[0.5, 0.20, 0.20, 0.10], in tenths
WeightsInTenths == <<5, 2, 2, 1>>

\* TrajectoryRubric.__init__: intermediate_reward = 0.0
intermediate_reward == 0

\* assets / (assets + 10000) if assets >= 0 else 0.0
EconomyScore(assets) ==
    IF assets >= 0 THEN (assets * ONE) \div (assets + 10000) ELSE 0

\* kills / total, 0.0 when total is 0
MilitaryScore(kills, deaths) ==
    IF kills + deaths = 0 THEN 0 ELSE (kills * ONE) \div (kills + deaths)

\* 1.0 / (1.0 + ticks / 3000)
SpeedScore(ticks) == (3000 * ONE) \div (3000 + ticks)

\* OpenRAWinLossRubric.score_trajectory on a final observation with this result
WinLossScore(result) ==
    IF result = <<"w", "i", "n">> THEN ONE
    ELSE IF result = <<"l", "o", "s", "e">> THEN 0 - ONE
    ELSE 0

\* score_trajectory(trajectory) of a child rubric; military is << >> for None
score_trajectory(child, traj) ==
    IF traj = << >> THEN 0
    ELSE LET final_obs == traj[Len(traj)][2] IN
         CASE child = "win_loss" -> WinLossScore(final_obs.result)
           [] child = "military" ->
                IF final_obs.military = << >> THEN 0
                ELSE MilitaryScore(final_obs.military[1].kills_cost, final_obs.military[1].deaths_cost)
           [] child = "economy" ->
                IF final_obs.military = << >> THEN 0
                ELSE EconomyScore(final_obs.military[1].assets_value)
           [] child = "speed" -> SpeedScore(final_obs.tick)

\* a forward that scores the trajectory on every step
ForwardScoringEachStep(child, traj, observation) == score_trajectory(child, traj)

\* TrajectoryRubric.forward, after the append that made the trajectory traj
forward(child, traj, observation) ==
    IF observation.done THEN score_trajectory(child, traj) ELSE intermediate_reward

\* WeightedSum.forward: the weighted sum of the children's scores, each
\* child called with the step
WeightedSum(trajs, action, observation) ==
    SumSeq([i \in 1..Len(Children) |->
        forward(Children[i], Append(trajs[Children[i]], <<action, observation>>), observation)
            * WeightsInTenths[i]]) \div 10

\* kills / total_cost if total_cost > 0 else 0.0
MilitaryScoreOfGame(kills, deaths) ==
    IF kills + deaths > 0 THEN (kills * ONE) \div (kills + deaths) ELSE 0

\* compute_game_metrics(final_obs)
compute_game_metrics(final_obs) ==
    [result |-> final_obs.result,
     win |-> final_obs.result = <<"w", "i", "n">>,
     ticks |-> final_obs.tick,
     kills_cost |-> IF final_obs.military = << >> THEN 0 ELSE final_obs.military[1].kills_cost,
     deaths_cost |-> IF final_obs.military = << >> THEN 0 ELSE final_obs.military[1].deaths_cost,
     assets_value |-> IF final_obs.military = << >> THEN 0 ELSE final_obs.military[1].assets_value]

\* compute_composite_score_from_games(game_results), on the 0-100 scale
compute_composite_score_from_games(game_results) ==
    LET total == Len(game_results)
        win_rate == (Cardinality({i \in 1..total : game_results[i].win}) * ONE) \div total
        avg_mil == SumSeq([i \in 1..total |->
                       MilitaryScoreOfGame(game_results[i].kills_cost, game_results[i].deaths_cost)]) \div total
        avg_econ == SumSeq([i \in 1..total |-> EconomyScore(game_results[i].assets_value)]) \div total
        avg_speed == SumSeq([i \in 1..total |-> SpeedScore(game_results[i].ticks)]) \div total
    IN IF total = 0 THEN 0
       ELSE 100 * ((5 * win_rate + 2 * avg_mil + 2 * avg_econ + avg_speed) \div 10)

\* obs.military of a game with a won exchange and large assets, of one with
\* no combat and negative assets, of one with an even exchange, and of one
\* whose costs add up to less than nothing
MilitaryStats ==
    <<[kills_cost |-> 3000, deaths_cost |-> 1000, assets_value |-> 30000],
      [kills_cost |-> 0, deaths_cost |-> 0, assets_value |-> 0 - 5000],
      [kills_cost |-> 1000, deaths_cost |-> 1000, assets_value |-> 10000],
      [kills_cost |-> 1000, deaths_cost |-> 0 - 3000, assets_value |-> 0]>>

\* the GameObservation objects the rubric is called with
GameObservations ==
    {[done |-> FALSE, result |-> EMPTY, military |-> << >>, tick |-> 0],
     [done |-> FALSE, result |-> EMPTY, military |-> <<MilitaryStats[1]>>, tick |-> 3000],
     [done |-> FALSE, result |-> <<"w", "i", "n">>, military |-> <<MilitaryStats[1]>>, tick |-> 3000],
     [done |-> TRUE, result |-> <<"w", "i", "n">>, military |-> <<MilitaryStats[1]>>, tick |-> 3000],
     [done |-> TRUE, result |-> <<"l", "o", "s", "e">>, military |-> <<MilitaryStats[1]>>, tick |-> 3000],
     [done |-> TRUE, result |-> <<"d", "r", "a", "w">>, military |-> <<MilitaryStats[1]>>, tick |-> 9000],
     [done |-> TRUE, result |-> <<"l", "o", "s", "e">>, military |-> <<MilitaryStats[2]>>, tick |-> 0],
     [done |-> TRUE, result |-> <<"w", "i", "n">>, military |-> << >>, tick |-> 0],
     [done |-> TRUE, result |-> EMPTY, military |-> <<MilitaryStats[3]>>, tick |-> 0],
     [done |-> TRUE, result |-> <<"w", "i", "n">>, military |-> <<MilitaryStats[4]>>, tick |-> 0]}

\* the actions of the steps
GameActions == {"move", "build"}

\* rubric(action, observation): every child appends the step and scores
RubricCall(action, observation) ==
    /\ Len(trajectory.win_loss) < MaxSteps
    /\ trajectory' = [c \in DOMAIN trajectory |-> Append(trajectory[c], <<action, observation>>)]
    /\ returned' = <<WeightedSum(trajectory, action, observation)>>
    /\ UNCHANGED composite
    /\ UNCHANGED <<rvars, pvars, evars, wvars>>

\* rubric.reset(): every child empties its trajectory
RubricReset ==
    /\ trajectory' = [c \in DOMAIN trajectory |-> << >>]
    /\ returned' = << >>
    /\ UNCHANGED composite
    /\ UNCHANGED <<rvars, pvars, evars, wvars>>

\* compute_composite_score_from_games([compute_game_metrics(final_obs)])
CompositeOfGame(final_obs) ==
    /\ composite' = <<[obs |-> final_obs,
                       score |-> compute_composite_score_from_games(<<compute_game_metrics(final_obs)>>)]>>
    /\ UNCHANGED <<trajectory, returned>>
    /\ UNCHANGED <<rvars, pvars, evars, wvars>>

\* OpenRABenchRubric(): four children with empty trajectories
InitRubric ==
    /\ trajectory = [c \in {Children[i] : i \in 1..Len(Children)} |-> << >>]
    /\ returned = << >> /\ composite = << >>
    /\ ResolverIdle /\ ParserStart /\ ExtractorIdle /\ RewardIdle

NextRubric ==
    \/ \E q \in GameActions \X GameObservations : RubricCall(q[1], q[2])
    \/ RubricReset
    \/ \E final_obs \in {o \in GameObservations : o.done} : CompositeOfGame(final_obs)

SpecRubric == InitRubric /\ [][NextRubric]_vars

----------------------------------------------------------------------------
(* Observations of the heap *)

\* the addresses of all dicts reachable from the dict at address a, in at
\* most `fuel` steps (fuel = Len(h) reaches them all)
RECURSIVE ReachWithin(_, _, _)
ReachWithin(h, a, fuel) ==
    IF a > Len(h) \/ fuel = 0 THEN {}
    ELSE {a} \cup UNION {ReachWithin(h, h[a][i].ref, fuel - 1) :
                            i \in {j \in 1..Len(h[a]) : h[a][j].isd}}

Reach(h, a) == ReachWithin(h, a, Len(h))

\* The definitions: the raw node and, once cached, the resolved definition of a name
Definitions == ({"raw"} \X DOMAIN defs) \cup ({"resolved"} \X DOMAIN cache)
RootOf(d) == IF d[1] = "raw" THEN defs[d[2]] ELSE cache[d[2]]

RawKeys(n) == DictKeys(heap[defs[n]])
ResolvedKeys(n) == DictKeys(heap[cache[n]])

\* the scalar value of field k of the dict at address a
FieldValue(h, a, k) == ValueOf(h, DictGet(h[a], k)).res.s

IsDirective(k) == StartsWith(k, INHERITS) \/ StartsWith(k, REMOVAL)

\* the parents X names, in the order of the Inherits keys among its
\* children; a child whose value is no name counts as the empty name
ListedParents(n) ==
    LET inh == SelectSeq(heap[defs[n]],
                         LAMBDA e : StartsWith(e.k, INHERITS) /\ e.isd /\ IsTrue(heap, ValueAt(heap, e.ref)))
    IN [i \in 1..Len(inh) |-> ValueAt(heap, inh[i].ref).s]

----------------------------------------------------------------------------
(* C1: no dict is reachable from two distinct definitions, raw or resolved, *)
(* so a mutation inside one resolved definition cannot be observed in a     *)
(* sibling, in the cached ancestor or in a raw definition.                  *)
C1_NoSharedSubtree ==
    LET reach == [d \in Definitions |-> Reach(heap, RootOf(d))] IN
    \A d1, d2 \in Definitions : d1 # d2 => reach[d1] \cap reach[d2] = {}

\* B and C are resolved siblings that both inherited the sub-tree f/h of A
C1_Witness ==
    /\ status = "idle"
    /\ DOMAIN cache = DefNames
    /\ ListedParents(nB) = <<nA>>
    /\ ListedParents(nC) = <<nA>>
    /\ \A n \in DefNames :
          /\ DictHas(heap[cache[n]], kF)
          /\ DictHas(heap[DictGet(heap[cache[n]], kF).ref], kH)

(* C4: resolve_inherits never raises, whatever removal keys the merged     *)
(* result holds.                                                            *)
C4_NeverRaises == status \in {"idle", "running"}

(* C6: a key named by a removal directive of X is absent from the resolved  *)
(* X, also when it was inherited; for Base(f, g=100), Mid inheriting Base   *)
(* with g=200 and Leaf inheriting Mid with -f, Leaf resolves to g=200 and   *)
(* no f.                                                                    *)
IsChainExample ==
    /\ ListedParents(nA) = << >> /\ RawKeys(nA) = {VALUE_KEY, kF, kG}
    /\ ListedParents(nB) = <<nA>> /\ RawKeys(nB) = {VALUE_KEY, INHERITS, kG}
    /\ ListedParents(nC) = <<nB>> /\ RawKeys(nC) = {VALUE_KEY, INHERITS, kRemF}

C6_RemovalAfterMerge ==
    /\ \A n \in DOMAIN cache : \A k \in RawKeys(n) :
          StartsWith(k, REMOVAL) => StripFirst(k) \notin ResolvedKeys(n)
    /\ (IsChainExample /\ nC \in DOMAIN cache) =>
          /\ kF \notin ResolvedKeys(nC)
          /\ kG \in ResolvedKeys(nC)
          /\ FieldValue(heap, cache[nC], kG) = <<"2", "0", "0">>

\* Leaf is resolved, and the f it removed is the one Mid inherited from Base
C6_Witness ==
    /\ IsChainExample
    /\ status = "idle"
    /\ DOMAIN cache = DefNames
    /\ kF \in ResolvedKeys(nB)
    /\ kF \notin RawKeys(nB)

(* C7: no cached definition and no result of a top-level call has a key    *)
(* that begins with "Inherits" or with "-".                                 *)
C7_DirectiveFree ==
    /\ \A n \in DOMAIN cache : \A k \in ResolvedKeys(n) : ~IsDirective(k)
    /\ (status = "idle" /\ ret > 0) => \A k \in DictKeys(heap[ret]) : ~IsDirective(k)

\* a definition with an Inherits key and a removal key has been resolved and returned
C7_Witness ==
    /\ status = "idle"
    /\ ret > 0
    /\ callName \in DOMAIN cache
    /\ ret = cache[callName]
    /\ INHERITS \in RawKeys(callName)
    /\ kRemF \in RawKeys(callName)

(* C9: a step of resolve_inherits changes no dict of a raw definition and  *)
(* no dict of a cached definition, and only adds entries to the cache.      *)
C9_Frame ==
    [][~NewCache =>
          /\ defs' = defs
          /\ \A n \in DOMAIN cache : n \in DOMAIN cache' /\ cache'[n] = cache[n]
          /\ \A a \in UNION {Reach(heap, RootOf(d)) : d \in Definitions} :
                a <= Len(heap') /\ heap'[a] = heap[a]]_vars

\* C is resolved on top of a cached parent A, both with a dict-valued f:
\* the own f of C was merged into the f that came from A
C9_Witness ==
    /\ status = "idle"
    /\ {nA, nC} \subseteq DOMAIN cache
    /\ ListedParents(nC) = <<nA>>
    /\ kF \in RawKeys(nC) /\ kF \in RawKeys(nA)
    /\ DictKeys(heap[DictGet(heap[cache[nC]], kF).ref]) = {VALUE_KEY, kH, kJ}

(* Termination of resolve_inherits.  The calls that got past the early     *)
(* returns are the frames of `stack`; the call a frame makes for its next  *)
(* parent is one level deeper, and ends in the same step when it takes an  *)
(* early return or raises.  Every step of a running call decreases         *)
(* Measure, a natural number, so no call runs forever.                     *)
RECURSIVE PendingFrom(_)
PendingFrom(i) ==
    IF i > Len(stack) THEN 0
    ELSE (Len(stack[i].parents) + 1 - stack[i].idx) + PendingFrom(i + 1)

MaxParentCount ==
    LET counts == {Len(Parents(heap, defs[n]).res) : n \in DOMAIN defs}
    IN CHOOSE c \in counts : \A d \in counts : d <= c

Measure ==
    Cardinality(DOMAIN defs \ (DOMAIN cache \cup resolving)) * (MaxParentCount + 1)
        + PendingFrom(1)

\* the top frame calls resolve_inherits for its next parent in this step
CallsParent == status = "running" /\ Top.idx <= Len(Top.parents) /\ stack' # stack

\* the depth of that call: the active calls and the one made
CallDepth == Len(stack) + 1

\* every step of a running call that leaves it running decreases Measure
MeasureFalls == (status = "running" /\ status' = "running") => Measure' < Measure

(* C3: for every set of definitions and every name resolve_inherits        *)
(* eventually returns, so it neither runs forever nor raises, and the     *)
(* recursion depth never exceeds the number of definitions.                *)
C3_ReturnsWithinDepth ==
    /\ [](status \in {"idle", "running"})
    /\ [](Len(stack) <= Cardinality(DOMAIN defs))
    /\ [][CallsParent => CallDepth <= Cardinality(DOMAIN defs)]_vars
    /\ [][MeasureFalls]_vars

\* what the code keeps of it: a call ends, by a return or by an exception;
\* the calls past the early returns have distinct names of definitions, so
\* the depth is at most one more than the number of definitions
C3_Terminates ==
    /\ [](/\ Len(stack) <= Cardinality(DOMAIN defs)
          /\ \A i, j \in 1..Len(stack) : stack[i].name = stack[j].name => i = j
          /\ status = "running" => Len(stack) > 0)
    /\ [][CallsParent => CallDepth <= Cardinality(DOMAIN defs) + 1]_vars
    /\ [][MeasureFalls]_vars

\* the recursion is as deep as it can get: every definition is being
\* resolved, and the call for the next parent returns its raw definition
C3_Witness ==
    /\ status = "running"
    /\ Len(stack) = Cardinality(DOMAIN defs)
    /\ Top.idx = 1
    /\ Len(Top.parents) > 0
    /\ ~Top.parents[1].isd
    /\ Outcome(Top.parents[1].s, resolving) = "cycle"

(* C2 as claimed: with A inheriting B and B inheriting A, a top-level      *)
(* resolve of A on a fresh cache returns no field that only B defines.     *)
IsTwoCycle ==
    /\ ListedParents(nA) = <<nB>>
    /\ ListedParents(nB) = <<nA>>

ReturnedFreshA == status = "idle" /\ callName = nA /\ freshCall /\ ret > 0

C2_CycleReturnsOwnRaw ==
    (IsTwoCycle /\ ReturnedFreshA) =>
        \A k \in DictKeys(heap[ret]) : ~(k \in RawKeys(nB) /\ k \notin RawKeys(nA))

\* the keys named by the removal directives of the raw definition n
RemovalTargets(n) == {StripFirst(k) : k \in {r \in RawKeys(n) : StartsWith(r, REMOVAL)}}

\* the scalar value stored under key k of the dict at address a
ScalarOf(h, a, k) ==
    IF DictGet(h[a], k).isd THEN FieldValue(h, a, k) ELSE DictGet(h[a], k).s

(* C2 amended: the result is A's own node merged over B's.  Every field A  *)
(* defines has A's value unless a removal of A names it; every field only  *)
(* B defines is present with B's value unless a removal of A or B names    *)
(* it.                                                                      *)
C2_CycleMergesOwnOverOther ==
    (IsTwoCycle /\ ReturnedFreshA) =>
        /\ \A k \in RawKeys(nA) :
              (~IsDirective(k) /\ k \notin RemovalTargets(nA)) =>
                  /\ k \in DictKeys(heap[ret])
                  /\ ScalarOf(heap, ret, k) = ScalarOf(heap, defs[nA], k)
        /\ \A k \in RawKeys(nB) \ RawKeys(nA) :
              (~IsDirective(k) /\ k \notin (RemovalTargets(nA) \cup RemovalTargets(nB))) =>
                  /\ k \in DictKeys(heap[ret])
                  /\ ScalarOf(heap, ret, k) = ScalarOf(heap, defs[nB], k)

\* resolve(A) has returned in a two-cycle, with the field g that only B defines
C2_Witness ==
    /\ IsTwoCycle
    /\ ReturnedFreshA
    /\ kG \in RawKeys(nB) \ RawKeys(nA)
    /\ kG \in DictKeys(heap[ret])

(* C5: in a resolved X the scalar value of a field is X's own value when X *)
(* defines the field, and otherwise the value in the last-listed parent    *)
(* whose resolution has the field (the resolution as the recursive call    *)
(* for that parent returned it).                                            *)
LastParentWith(n, k) ==
    LET have == {i \in 1..Len(merged[n]) :
                    merged[n][i] # 0 /\ k \in DictKeys(heap[merged[n][i]])}
    IN IF have = {} THEN 0 ELSE merged[n][CHOOSE i \in have : \A j \in have : j <= i]

C5_MergePrecedence ==
    \A n \in DOMAIN cache :
        /\ Len(merged[n]) = Len(ListedParents(n))
        /\ \A i \in 1..Len(merged[n]) :
              ListedParents(n)[i] \in DOMAIN cache =>
                  merged[n][i] \in {cache[ListedParents(n)[i]], defs[ListedParents(n)[i]]}
        /\ \A k \in ResolvedKeys(n) :
              IF k \in RawKeys(n)
              THEN ScalarOf(heap, cache[n], k) = ScalarOf(heap, defs[n], k)
              ELSE /\ LastParentWith(n, k) # 0
                   /\ ScalarOf(heap, cache[n], k) = ScalarOf(heap, LastParentWith(n, k), k)

\* C inherits A then B, which resolve f to different values; C has no own f
\* and takes the f of B
C5_Witness ==
    /\ status = "idle"
    /\ DOMAIN cache = DefNames
    /\ ListedParents(nC) = <<nA, nB>>
    /\ merged[nC] = <<cache[nA], cache[nB]>>
    /\ kF \notin RawKeys(nC)
    /\ kF \in ResolvedKeys(nA) /\ kF \in ResolvedKeys(nB) /\ kF \in ResolvedKeys(nC)
    /\ FieldValue(heap, cache[nA], kF) = <<"1">>
    /\ FieldValue(heap, cache[nB], kF) = <<"2">>
    /\ FieldValue(heap, cache[nC], kF) = <<"2">>

(* C8: a call for a name that is in the cache returns the cached dict at   *)
(* once and changes neither the cache nor the dict; and a name resolved on *)
(* a fresh cache gets the value the first resolution on a fresh cache gave *)
(* it.                                                                      *)
C8_Idempotent ==
    /\ [][(status = "idle" /\ callName' \in DOMAIN cache) =>
             /\ status' = "idle"
             /\ cache' = cache
             /\ ret' = cache[callName']
             /\ TreeValue(heap', ret') = TreeValue(heap, cache[callName'])]_vars
    /\ []((status = "idle" /\ freshCall /\ ret > 0 /\ callName = firstFresh.n) =>
             TreeValue(heap, ret) = firstFresh.v)

\* A has no parents and was resolved before B; the latest call, for A, found
\* it in the cache; A was also the first name resolved on a fresh cache
C8_Witness ==
    /\ status = "idle"
    /\ callName = nA
    /\ firstFresh.n = nA
    /\ ListedParents(nA) = << >>
    /\ {nA, nB} \subseteq DOMAIN cache
    /\ cache[nB] > cache[nA]
    /\ ret = cache[nA]
    /\ TreeValue(heap, ret) = firstFresh.v

(* C10: every line that is not skipped becomes a child of the node of the  *)
(* nearest preceding non-skipped line with fewer leading tabs, or of the   *)
(* root when there is none.                                                 *)
ExpectedParent(i) ==
    LET above == {j \in 1..(i - 1) : ~IsSkipped(lines[j]) /\ DepthOf(lines[j]) < DepthOf(lines[i])}
    IN IF above = {} THEN RootAddr
       ELSE nodeOf[CHOOSE j \in above : \A m \in above : m <= j]

C10_NearestShallowerParent ==
    /\ \A i \in 1..Len(lines) :
          ~IsSkipped(lines[i]) => nodeOf[i] # 0 /\ parentOf[i] = ExpectedParent(i)
    /\ (Len(lines) > 0 /\ ~IsSkipped(lines[Len(lines)])) =>
          \E e \in {nodes[parentOf[Len(lines)]][x] : x \in 1..Len(nodes[parentOf[Len(lines)]])} :
              /\ e.k = KeyOf(LStripTabs(lines[Len(lines)]))
              /\ e.isd /\ e.ref = nodeOf[Len(lines)]

\* the depth jumps from 0 to 2 and falls back to 1: both later lines are
\* children of the first
C10_Witness ==
    /\ Len(lines) = 3
    /\ \A i \in 1..3 : ~IsSkipped(lines[i])
    /\ DepthOf(lines[1]) = 0 /\ DepthOf(lines[2]) = 2 /\ DepthOf(lines[3]) = 1
    /\ parentOf[2] = nodeOf[1]
    /\ parentOf[3] = nodeOf[1]

(* C11: blank lines, lines of whitespace only included, and comment lines  *)
(* create no node, and the parse result is the one of the same text with   *)
(* those lines deleted.                                                     *)
IsBlankOrComment(line) ==
    \/ Strip(line) = << >>
    \/ LStripTabs(line) # << >> /\ Head(LStripTabs(line)) = COMMENT

WithoutBlankOrComment(ls) == SelectSeq(ls, LAMBDA l : ~IsBlankOrComment(l))

C11_BlankAndCommentLinesIgnored ==
    /\ \A i \in 1..Len(lines) : IsBlankOrComment(lines[i]) => nodeOf[i] = 0
    /\ TreeValue(nodes, RootAddr) =
          TreeValue(parse_miniyaml(WithoutBlankOrComment(lines)), RootAddr)

\* the same for the lines the loop does skip: lines of tabs only and
\* comment lines
C11_SkippedLinesIgnored ==
    /\ \A i \in 1..Len(lines) : IsSkipped(lines[i]) => nodeOf[i] = 0
    /\ TreeValue(nodes, RootAddr) =
          TreeValue(parse_miniyaml(SelectSeq(lines, LAMBDA l : ~IsSkipped(l))), RootAddr)

(* C12: get_value and get_child follow the path segment by segment, at     *)
(* each step taking the child whose key matches exactly, else the first    *)
(* child in iteration order whose key matches in lower case; when a step   *)
(* finds neither, get_value returns "" and get_child the empty node.       *)
\* the entry of dict d the claim selects for key, 0 when there is none;
\* get_child looks at the children that are nodes only
Pick(d, key, onlyDicts) ==
    LET eligible == {i \in 1..Len(d) : onlyDicts => d[i].isd}
        exact == {i \in eligible : d[i].k = key}
        anyCase == {i \in eligible : Lower(d[i].k) = Lower(key)}
    IN IF exact # {} THEN CHOOSE i \in exact : TRUE
       ELSE IF anyCase # {} THEN CHOOSE i \in anyCase : \A j \in anyCase : i <= j
       ELSE 0

Nowhere == [k |-> EMPTY, isd |-> FALSE, s |-> EMPTY, ref |-> -1]

RECURSIVE Follow(_, _, _, _)
Follow(h, cur, keys, onlyDicts) ==
    IF keys = << >> THEN cur
    ELSE IF ~cur.isd \/ Pick(h[cur.ref], Head(keys), onlyDicts) = 0 THEN Nowhere
    ELSE Follow(h, h[cur.ref][Pick(h[cur.ref], Head(keys), onlyDicts)], Tail(keys), onlyDicts)

C12_SegmentBySegment ==
    /\ out.op = "get_value" =>
          LET e == Follow(store, NodeAt(unitDef), out.arg, FALSE) IN
          out.res = IF e = Nowhere THEN Str(EMPTY)
                    ELSE IF e.isd THEN ValueOfEntry(store[e.ref][1])
                    ELSE Str(e.s)
    /\ out.op = "get_child" =>
          LET e == Follow(store, NodeAt(unitDef), out.arg, TRUE) IN
          out.res = IF e = Nowhere THEN 0 ELSE e.ref

\* Valued/Cost on a definition that lists "valued" before "Valued": the
\* exact keys are taken
C12_Witness ==
    /\ out.op = "get_value"
    /\ out.arg = <<kValued, kCost>>
    /\ Len(store[unitDef]) > 2
    /\ store[unitDef][2].k = Lower(kValued)
    /\ DictHas(store[unitDef], kValued)
    /\ out.res = Str(<<"1", "0", "0">>)

(* C13: extract_versus uses only the first damage warhead, in the weapon   *)
(* definition's child order, that has a Versus table: every value of the   *)
(* result comes from that table, whatever the table contains.              *)
\* the entries of the weapon definition at address a that are damage
\* warheads with a Versus table
TablesOf(h, a) ==
    {i \in 1..Len(h[a]) : IsDamageWarhead(h, h[a][i]) /\ get_child(h, h[a][i].ref, <<kVersus>>) > 0}

FirstTableOf(h, a) ==
    get_child(h, h[a][CHOOSE i \in TablesOf(h, a) : \A j \in TablesOf(h, a) : i <= j].ref, <<kVersus>>)

\* does the table at address t give the armor tag the multiplier n
TableGives(h, t, armor, n) ==
    \E i \in 1..Len(h[t]) :
        /\ h[t][i].k # VALUE_KEY /\ Lower(h[t][i].k) = armor /\ h[t][i].isd
        /\ ~ValueAt(h, h[t][i].ref).isd
        /\ ParseInt(ValueAt(h, h[t][i].ref).s) = [ok |-> TRUE, n |-> n]

\* does the table give a multiplier for some tracked armor tag
TableTracks(h, t) ==
    \E i \in 1..Len(h[t]) :
        /\ h[t][i].k # VALUE_KEY /\ Lower(h[t][i].k) \in ArmorTags /\ h[t][i].isd
        /\ ~ValueAt(h, h[t][i].ref).isd
        /\ ParseInt(ValueAt(h, h[t][i].ref).s).ok

C13_FirstTableOnly ==
    out.op = "extract_versus" =>
        IF TablesOf(store, weapons[out.arg]) = {} THEN out.res = << >>
        ELSE \A armor \in DOMAIN out.res :
                TableGives(store, FirstTableOf(store, weapons[out.arg]), armor, out.res[armor])

\* the same when the first table gives a multiplier for some tracked tag
C13_FirstTableWithTrackedTag ==
    (/\ out.op = "extract_versus"
     /\ TablesOf(store, weapons[out.arg]) # {}
     /\ TableTracks(store, FirstTableOf(store, weapons[out.arg])))
    => /\ out.res # << >>
       /\ \A armor \in DOMAIN out.res :
             TableGives(store, FirstTableOf(store, weapons[out.arg]), armor, out.res[armor])

(* Observations of an extractor call *)
Uid == Lower(unitId)
\* the weapon references of the unit are names, and the names
NamesAreText == ~get_primary_weapon(store, unitDef).isd /\ ~get_secondary_weapon(store, unitDef).isd
PrimaryName == get_primary_weapon(store, unitDef).s
SecondaryName == get_secondary_weapon(store, unitDef).s
VersusOfWeapon(name) == extract_versus(store, WeaponDef(weapons, name))
Built == out.op = "build_versus_for_unit"
AllTags(n) == [armor \in ArmorTags |-> n]

\* no weapon reference, a weapon the table does not have, or no versus data
Unarmed(name) == name = EMPTY \/ name \notin DOMAIN weapons \/ VersusOfWeapon(name) = << >>

\* the primary weapon reference of the unit, and that it is a text
PrimaryRef == get_primary_weapon(store, unitDef)
PrimaryIsText == ~PrimaryRef.isd

\* the same of a reference: one that is a mapping names no weapon
UnarmedRef(w) == w.isd \/ Unarmed(w.s)

\* get_effectiveness answers 0.0 when the attacker's mapping is empty or
\* the attacker is not in the table
ZeroForNonCombat ==
    (/\ out.op = "get_effectiveness"
     /\ \/ Lower(out.arg[1]) \notin DOMAIN UNIT_EFFECTIVENESS
        \/ UNIT_EFFECTIVENESS[Lower(out.arg[1])] = << >>)
    => out.res = 0

(* C14: a unit with no primary weapon reference, or whose weapon is       *)
(* unknown or yields no versus data, gets an empty mapping from           *)
(* build_versus_for_unit; get_effectiveness is 0.0 for an empty mapping or *)
(* an unknown attacker.  The unit is one outside SPECIAL_MODELING, and its *)
(* weapon is the one GROUND_WEAPON_OVERRIDE names for it or else its       *)
(* primary weapon reference, by the precedence of build_versus_for_unit.   *)
C14_UnarmedIsEmpty ==
    /\ (/\ Built
        /\ Uid \notin DOMAIN SPECIAL_MODELING
        /\ IF Uid \in DOMAIN GROUND_WEAPON_OVERRIDE
           THEN Unarmed(GROUND_WEAPON_OVERRIDE[Uid])
           ELSE UnarmedRef(PrimaryRef))
       => out.exc = "" /\ out.res = << >>
    /\ ZeroForNonCombat

\* the same of the units whose primary weapon reference is a text
C14_UnarmedIsEmptyUnlessOverridden ==
    /\ (/\ Built
        /\ Uid \notin DOMAIN SPECIAL_MODELING
        /\ IF Uid \in DOMAIN GROUND_WEAPON_OVERRIDE
           THEN Unarmed(GROUND_WEAPON_OVERRIDE[Uid])
           ELSE PrimaryIsText /\ Unarmed(PrimaryName))
       => out.exc = "" /\ out.res = << >>
    /\ ZeroForNonCombat

\* the reference of a unit outside the override tables is a mapping, and
\* weapons.get(weapon_name, {}) raised TypeError
C14_MappingReferenceRaised ==
    /\ Built
    /\ Uid \notin DOMAIN SPECIAL_MODELING \cup DOMAIN GROUND_WEAPON_OVERRIDE
    /\ PrimaryRef.isd
    /\ out.exc = "TypeError"

\* a unit whose Armament@PRIMARY names no weapon got the empty mapping, and
\* so does a unit whose weapon has no Versus table
C14_Witness ==
    /\ Built
    /\ Uid \notin DOMAIN SPECIAL_MODELING \cup DOMAIN GROUND_WEAPON_OVERRIDE
    /\ NamesAreText
    /\ \/ PrimaryName = EMPTY /\ Truthy(store, get_child(store, unitDef, <<kArmament>>))
       \/ PrimaryName \in DOMAIN weapons /\ VersusOfWeapon(PrimaryName) = << >>
    /\ out.exc = "" /\ out.res = << >>

C14_WitnessZero ==
    /\ out.op = "get_effectiveness"
    /\ Lower(out.arg[1]) \in DOMAIN UNIT_EFFECTIVENESS
    /\ UNIT_EFFECTIVENESS[Lower(out.arg[1])] = << >>
    /\ out.res = 0

(* C15: a unit whose weapon has a damage warhead with a Versus table that  *)
(* yields no entry for a tracked armor tag has effectiveness 1.0 against   *)
(* every armor tag.                                                         *)
HasEmptyTable(name) ==
    /\ name \in DOMAIN weapons
    /\ TablesOf(store, weapons[name]) # {}
    /\ VersusOfWeapon(name) = << >>

C15_EmptyTableIsNormalDamage ==
    /\ (/\ Built
        /\ Uid \notin DOMAIN SPECIAL_MODELING
        /\ NamesAreText
        /\ HasEmptyTable(WeaponNameOf(store, Uid, unitDef).s))
       => out.res = AllTags(100)
    /\ (/\ out.op = "get_effectiveness"
        /\ Lower(out.arg[1]) \in DOMAIN UNIT_EFFECTIVENESS
        /\ out.arg[2] \in ArmorTags
        /\ Uid \notin DOMAIN SPECIAL_MODELING
        /\ NamesAreText
        /\ HasEmptyTable(WeaponNameOf(store, Uid, unitDef).s))
       => out.res = 100

(* C16: for a unit id that is, in lower case, in SPECIAL_MODELING,         *)
(* build_versus_for_unit returns that table's entry, whatever the unit     *)
(* definition and the weapons are.                                          *)
C16_SpecialModelingWins ==
    (Built /\ Uid \in DOMAIN SPECIAL_MODELING) => out.exc = "" /\ out.res = SPECIAL_MODELING[Uid]

\* the id is given in upper case, and the unit has a primary weapon with
\* versus data that differs from the entry
C16_Witness ==
    /\ Built
    /\ unitId = <<"E", "7">>
    /\ PrimaryName \in DOMAIN weapons
    /\ VersusOfWeapon(PrimaryName) # << >>
    /\ out.res = SPECIAL_MODELING[<<"e", "7">>]
    /\ out.res # fill_versus(VersusOfWeapon(PrimaryName))

(* C17: for a dual-weapon unit whose primary and secondary weapons both    *)
(* yield versus tables, every armor tag referenced by either table gets    *)
(* the mean of the two multipliers, a missing side counting as 1.0,        *)
(* rounded to two decimals, and every other tag gets 1.0; primary          *)
(* {none: 0.6, heavy: 0.7} with secondary {none: 1.0} gives none = 0.8     *)
(* and heavy = 0.85.                                                        *)
IsDualCase ==
    /\ Uid \in DUAL_WEAPON_UNITS
    /\ NamesAreText
    /\ VersusOfWeapon(PrimaryName) # << >>
    /\ SecondaryName \in DOMAIN weapons
    /\ VersusOfWeapon(SecondaryName) # << >>

\* r is the sum p + s halved and rounded to a whole number of hundredths
IsRoundedHalf(r, sum) ==
    IF sum % 2 = 0 THEN 2 * r = sum ELSE 2 * r = sum - 1 \/ 2 * r = sum + 1

IsDualExample ==
    /\ VersusOfWeapon(PrimaryName) = (<<"n", "o", "n", "e">> :> 60) @@ (<<"h", "e", "a", "v", "y">> :> 70)
    /\ VersusOfWeapon(SecondaryName) = (<<"n", "o", "n", "e">> :> 100)

C17_DualWeaponMean ==
    (Built /\ IsDualCase) =>
        LET p == VersusOfWeapon(PrimaryName)
            s == VersusOfWeapon(SecondaryName)
        IN /\ out.exc = ""
           /\ DOMAIN out.res = ArmorTags
           /\ \A armor \in ArmorTags :
                IF armor \in DOMAIN p \cup DOMAIN s
                THEN IsRoundedHalf(out.res[armor],
                                   (IF armor \in DOMAIN p THEN p[armor] ELSE 100)
                                   + (IF armor \in DOMAIN s THEN s[armor] ELSE 100))
                ELSE out.res[armor] = 100
           /\ IsDualExample =>
                /\ out.res[<<"n", "o", "n", "e">>] = 80
                /\ out.res[<<"h", "e", "a", "v", "y">>] = 85

C17_Witness ==
    /\ Built /\ IsDualCase /\ IsDualExample
    /\ out.res = Versus5(80, 100, 85, 100, 100)

\* a mean that needs rounding: 0.65 and 1.0
C17_WitnessRounded ==
    /\ Built /\ IsDualCase
    /\ <<"n", "o", "n", "e">> \in DOMAIN VersusOfWeapon(PrimaryName)
    /\ <<"n", "o", "n", "e">> \in DOMAIN VersusOfWeapon(SecondaryName)
    /\ VersusOfWeapon(PrimaryName)[<<"n", "o", "n", "e">>] = 65
    /\ VersusOfWeapon(SecondaryName)[<<"n", "o", "n", "e">>] = 100
    /\ out.res[<<"n", "o", "n", "e">>] = 82

(* C18: get_cost returns a non-negative integer: the integer at            *)
(* Valued/Cost when it parses, 0 when the path is absent or the text is    *)
(* no integer.                                                              *)
CostText == get_value(store, unitDef, <<kValued, kCost>>)

\* the integer the text at Valued/Cost parses to, 0 when it does not or is
\* no text
CostParsed == IF ~CostText.isd /\ ParseInt(CostText.s).ok THEN ParseInt(CostText.s).n ELSE 0

C18_CostNonNegative ==
    out.op = "get_cost" =>
        /\ out.res >= 0
        /\ out.res = CostParsed

\* the same without the sign of the result
C18_CostParsedOrZero ==
    out.op = "get_cost" => out.res = CostParsed

(* C19: get_armor_type returns a member of ARMOR_TYPES, and "none" when    *)
(* the Armor/Type path is absent.                                           *)
ArmorText == get_value(store, unitDef, <<kArmor, kType>>)

C19_ArmorInClosedSet ==
    out.op = "get_armor_type" =>
        /\ out.exc = ""
        /\ out.res \in ArmorTags
        /\ ArmorText = Str(EMPTY) => out.res = <<"n", "o", "n", "e">>

\* the same for the fallback and the lower-casing alone
C19_ArmorLowerOrNone ==
    (out.op = "get_armor_type" /\ ~ArmorText.isd) =>
        /\ out.exc = ""
        /\ out.res = IF ArmorText = Str(EMPTY) THEN <<"n", "o", "n", "e">> ELSE Lower(ArmorText.s)

\* C20: every component of every RewardVector returned by compute (combat,
\* economy, infrastructure, intelligence, composition, tempo, disruption,
\* outcome) lies in [-1, 1], whatever sequence of observations came before
C20_ComponentsBounded ==
    \A i \in 1..Len(vector) : \A c \in DOMAIN vector[i] :
        0 - ONE <= vector[i][c] /\ vector[i][c] <= ONE

\* a large base seen for the first time is worth more than 1.0 of
\* intelligence and a lost battle less than -1.0 of combat: both are returned
\* as exactly 1.0 and -1.0
C20_Witness ==
    /\ Len(vector) = 1
    /\ Len(obs[1].visible_enemy_buildings) = 7
    /\ vector[1].intelligence = ONE
    /\ obs[1].military.deaths_cost > obs[1].military.kills_cost
    /\ vector[1].combat = 0 - ONE

\* C21: the outcome component is 1.0 exactly when the observation is done
\* with result 'win', -1.0 exactly when it is done with result 'lose', and
\* 0.0 in every other case, whatever the tracker had seen before
C21_OutcomeIsTerminalSignal ==
    \A i \in 1..Len(vector) :
        LET won == obs[i].done /\ obs[i].result = <<"w", "i", "n">>
            lost == obs[i].done /\ obs[i].result = <<"l", "o", "s", "e">>
        IN /\ vector[i].outcome = ONE <=> won
           /\ vector[i].outcome = 0 - ONE <=> lost
           /\ vector[i].outcome = 0 <=> ~won /\ ~lost

\* a game won after the tracker has seen kills, discoveries and buildings
C21_Witness ==
    /\ Len(vector) = 1
    /\ obs[1].done /\ obs[1].result = <<"w", "i", "n">>
    /\ vector[1].outcome = ONE
    /\ vector[1].combat = 0
    /\ tracker.prev_kills_cost > 0
    /\ tracker.discovered_enemy_base

\* an observation that names a winner while the game is not done
C21_WitnessNotDone ==
    /\ Len(vector) = 1
    /\ ~obs[1].done /\ obs[1].result = <<"w", "i", "n">>
    /\ vector[1].outcome = 0

\* C22: after reset, every sequence of compute calls returns the vectors the
\* same sequence returns on a newly constructed computer, and leaves the
\* state it leaves there: nothing of the episode before survives
C22_ResetIsNewComputer ==
    vector = newVector /\ tracker = newState

\* a reset that replaced a state with a previous tick, discoveries and built
\* types, and a compute call after it that is paid the discovery of the
\* enemy base and of its building types again
C22_Witness ==
    /\ discarded = <<TRUE>>
    /\ Len(vector) = 1
    /\ vector[1].intelligence = ONE
    /\ vector[1].infrastructure > 0
    /\ vector = newVector

\* the actor ids, 0 included, of the enemies the compute call before the
\* latest step saw, none if that step is the first of its episode
IdsSeenBefore ==
    IF Len(obs) = 1
    THEN {obs[1].visible_enemies[i].actor_id : i \in 1..Len(obs[1].visible_enemies)}
    ELSE {}

\* C23: a compute call on an observation whose visible enemy actor ids were
\* all visible in the compute call before it and whose visible enemy
\* building types were all seen earlier in the episode returns 0.0 as
\* intelligence, in particular when the same observation is computed twice
C23_NothingNewNoIntelligence ==
    [][(/\ Len(vector') = 1
        /\ \A i \in 1..Len(obs'[1].visible_enemies) :
               obs'[1].visible_enemies[i].actor_id \in IdsSeenBefore
        /\ TypesOf(obs'[1].visible_enemy_buildings) \subseteq seenTypes)
       => vector'[1].intelligence = 0]_vars

\* enemy units and buildings are visible and no intelligence is paid: the
\* units were tracked by the call before and the types are discovered
C23_Witness ==
    /\ Len(vector) = 1
    /\ IdsOf(obs[1].visible_enemies) # {}
    /\ TypesOf(obs[1].visible_enemy_buildings) # {}
    /\ vector[1].intelligence = 0

\* C24: a compute call that sees the same list of visible enemy buildings as
\* the compute call before it, or that is the first since construction or
\* reset, returns 0.0 as disruption
C24_StableEnemyNoDisruption ==
    [][(/\ Len(vector') = 1
        /\ Len(obs) = 1 => obs[1].visible_enemy_buildings = obs'[1].visible_enemy_buildings)
       => vector'[1].disruption = 0]_vars

\* the small base (with a barracks spelt BARR) seen again by the call after
\* the one that saw it: only then are both its units known and no building
\* is missed
C24_Witness ==
    /\ Len(vector) = 1
    /\ obs[1].visible_enemy_buildings = EnemyBase.visible_enemy_buildings
    /\ vector[1].intelligence = 0
    /\ vector[1].disruption = 0
    /\ tracker.prev_enemy_production_buildings = 1

\* the non-zero actor ids of the enemies the compute call before the latest
\* step saw
TrackedBefore == IdsSeenBefore \ {0}

\* what the compute call of a step is due as intelligence when every
\* discovery is paid once in the episode: the sightings of the enemies the
\* call before did not see, the bonus of each production type no earlier
\* call of the episode saw, and the base bonus if no earlier call of the
\* episode saw a building
PaidOnce ==
    LET types == TypesOf(obs'[1].visible_enemy_buildings)
    IN Clamp(Cardinality(IdsOf(obs'[1].visible_enemies) \ TrackedBefore) * ENEMY_UNIT_SIGHTING_BONUS
             + Cardinality((types \ seenTypes) \cap PRODUCTION_BUILDINGS) * ENEMY_PRODUCTION_DISCOVERY_BONUS
             + (IF seenTypes = {} /\ types # {} THEN ENEMY_BASE_DISCOVERY_BONUS ELSE 0))

\* C28: between two resets the enemy-base discovery bonus is paid by at most
\* one compute call and the discovery bonus of a building type by at most
\* one, the first that sees the type, also when the building leaves and
\* re-enters visibility: every call returns exactly the sightings plus the
\* bonuses of what no earlier call of the episode saw
C28_DiscoveryPaidOnce ==
    [][Len(vector') = 1 => vector'[1].intelligence = PaidOnce]_vars

\* the base is visible again after a call that saw neither its buildings nor
\* its units: the two units are paid as sightings, the barracks and the base
\* are not paid again
C28_Witness ==
    /\ Len(vector) = 1
    /\ obs[1].visible_enemy_buildings = EnemyBase.visible_enemy_buildings
    /\ obs[1].visible_enemies = EnemyBase.visible_enemies
    /\ vector[1].intelligence = 2 * ENEMY_UNIT_SIGHTING_BONUS
    /\ vector[1].disruption = 0
    /\ tracker.discovered_enemy_base

\* the step of the latest call of the rubric
LatestStep == trajectory.win_loss[Len(trajectory.win_loss)]

\* C25: a call of OpenRABenchRubric with an observation that is not done
\* returns 0.0, and every call makes each of the four child rubrics append
\* the step to its trajectory: only a call with a done observation can
\* return a non-zero value
C25_ZeroUntilDone ==
    [][(trajectory' # trajectory /\ Len(returned') = 1)
       => LET step == trajectory'.win_loss[Len(trajectory'.win_loss)]
          IN /\ \A c \in DOMAIN trajectory : trajectory'[c] = Append(trajectory[c], step)
             /\ ~step[2].done => returned'[1] = 0]_vars

\* a second step that is not done, though its observation names a winner
\* and has kills, assets and ticks to score
C25_Witness ==
    /\ Len(returned) = 1
    /\ Len(trajectory.speed) = 2
    /\ ~LatestStep[2].done
    /\ LatestStep[2].result = <<"w", "i", "n">>
    /\ LatestStep[2].military # << >>
    /\ returned[1] = 0

\* the composite score was computed for the observation the rubric scored as
\* a done step
SameGame ==
    /\ Len(returned) = 1 /\ Len(composite) = 1
    /\ LatestStep[2].done
    /\ composite[1].obs = LatestStep[2]

\* C26: for every terminal observation, win, lose or draw, the composite
\* score of its game metrics alone is 100 times the value the rubric
\* returns for it as the done step of an episode
C26_CompositeMatchesRubric ==
    SameGame => composite[1].score = 100 * returned[1]

\* kills_cost + deaths_cost of the latest step
LatestTotalCost ==
    IF LatestStep[2].military = << >> THEN 0
    ELSE LatestStep[2].military[1].kills_cost + LatestStep[2].military[1].deaths_cost

\* the same for every result but 'lose', and for 'lose' with the 50 points
\* the rubric takes off for a lost game, when the costs do not add up to
\* less than nothing
C26_CompositeMatchesUnlessLost ==
    (SameGame /\ LatestTotalCost >= 0) =>
        composite[1].score =
            100 * returned[1] + (IF LatestStep[2].result = <<"l", "o", "s", "e">> THEN 50 * ONE ELSE 0)

\* for costs that add up to less than nothing the composite score counts no
\* military term, and the rubric counts kills / total
C26_NegativeTotalDiffers ==
    (SameGame /\ LatestTotalCost < 0) => composite[1].score # 100 * returned[1]

\* the latest lookup is the call op(arg)
Looked(op, arg) == out.op = op /\ out.arg = arg

\* C27: get_unit_cost gives 100 for e1, 2000 for 4tnk and 1100 for harv;
\* get_building_cost gives 2000 for fact, 300 for powr and 1200 for tsla;
\* get_building_armor gives 'wood' for powr and 'heavy' for tsla and pbox;
\* a type no table has costs 0
C27_AssertedValues ==
    /\ Looked("get_unit_cost", <<"e", "1">>) => out.res = 100
    /\ Looked("get_unit_cost", <<"4", "t", "n", "k">>) => out.res = 2000
    /\ Looked("get_unit_cost", <<"h", "a", "r", "v">>) => out.res = 1100
    /\ Looked("get_building_cost", <<"f", "a", "c", "t">>) => out.res = 2000
    /\ Looked("get_building_cost", <<"p", "o", "w", "r">>) => out.res = 300
    /\ Looked("get_building_cost", <<"t", "s", "l", "a">>) => out.res = 1200
    /\ Looked("get_building_armor", <<"p", "o", "w", "r">>) => out.res = <<"w", "o", "o", "d">>
    /\ Looked("get_building_armor", <<"t", "s", "l", "a">>) => out.res = <<"h", "e", "a", "v", "y">>
    /\ Looked("get_building_armor", <<"p", "b", "o", "x">>) => out.res = <<"h", "e", "a", "v", "y">>
    /\ Looked("get_unit_cost", <<"n", "o", "n", "e", "x", "i", "s", "t", "e", "n", "t">>) => out.res = 0
    /\ Looked("get_building_cost", <<"n", "o", "n", "e", "x", "i", "s", "t", "e", "n", "t">>) => out.res = 0

\* what the lookups give for the same types on the shipped tables
C27_ShippedValues ==
    /\ Looked("get_unit_cost", <<"e", "1">>) => out.res = 100
    /\ Looked("get_unit_cost", <<"4", "t", "n", "k">>) => out.res = 1700
    /\ Looked("get_unit_cost", <<"h", "a", "r", "v">>) => out.res = 1400
    /\ Looked("get_building_cost", <<"f", "a", "c", "t">>) => out.res = 2500
    /\ Looked("get_building_cost", <<"p", "o", "w", "r">>) => out.res = 300
    /\ Looked("get_building_cost", <<"t", "s", "l", "a">>) => out.res = 1500
    /\ Looked("get_building_armor", <<"p", "o", "w", "r">>) => out.res = <<"w", "o", "o", "d">>
    /\ Looked("get_building_armor", <<"t", "s", "l", "a">>) => out.res = <<"c", "o", "n", "c", "r", "e", "t", "e">>
    /\ Looked("get_building_armor", <<"p", "b", "o", "x">>) => out.res = <<"c", "o", "n", "c", "r", "e", "t", "e">>
    /\ Looked("get_unit_cost", <<"n", "o", "n", "e", "x", "i", "s", "t", "e", "n", "t">>) => out.res = 0
    /\ Looked("get_building_cost", <<"n", "o", "n", "e", "x", "i", "s", "t", "e", "n", "t">>) => out.res = 0

\* the value of the tree at address a as Python compares two dicts of which
\* one is a plain dict: the order of the keys does not count
RECURSIVE DictValue(_, _)
DictValue(h, a) ==
    {[k |-> h[a][i].k, isd |-> h[a][i].isd, s |-> h[a][i].s,
      sub |-> IF h[a][i].isd THEN DictValue(h, h[a][i].ref) ELSE {}] : i \in 1..Len(h[a])}

\* the value the first resolution on a fresh cache gave, without the order of the keys
RECURSIVE Unordered(_)
Unordered(v) ==
    {[k |-> v[i].k, isd |-> v[i].isd, s |-> v[i].s, sub |-> Unordered(v[i].sub)] : i \in 1..Len(v)}

\* C29: the value a top-level call returns for a name through a shared cache,
\* after any sequence of earlier calls with that cache, has the fields and
\* values that the resolution of that name on a fresh cache returned
C29_CacheIndependent ==
    (status = "idle" /\ ret > 0 /\ callName = firstFresh.n) =>
        DictValue(heap, ret) = Unordered(firstFresh.v)

\* C29 with the keys in the same order too
C29_CacheIndependentOrdered ==
    (status = "idle" /\ ret > 0 /\ callName = firstFresh.n) =>
        TreeValue(heap, ret) = firstFresh.v

\* no definition is resolved while a definition that inherits from it, directly
\* or not, is in progress
NoCycleMet == \A n \in DOMAIN merged : \A i \in 1..Len(merged[n]) : merged[n][i] \notin 1..rawLen

\* C29 for caches none of whose entries was computed through the cycle fallback
C29_CacheIndependentWithoutCycle ==
    (status = "idle" /\ ret > 0 /\ callName = firstFresh.n /\ NoCycleMet) =>
        TreeValue(heap, ret) = firstFresh.v

\* the names of the resolutions on the recursion stack
OnStack == {stack[i].name : i \in 1..Len(stack)}

\* the dicts the recursive calls of the active resolutions have returned
GotByActive == UNION {{stack[i].got[j] : j \in 1..Len(stack[i].got)} : i \in 1..Len(stack)}

\* C30: while a call is running the in-progress set is the set of the names
\* on the recursion stack, each of them there once; when the outermost call
\* has returned the set is empty; every cache key is a known definition and
\* no cache entry is a raw node (what the cycle fallback returns) or the
\* dict returned for an unknown name
C30_InProgressIsStack ==
    /\ status = "running" => (resolving = OnStack /\ Cardinality(resolving) = Len(stack))
    /\ status = "idle" => (resolving = {} /\ stack = << >>)
    /\ DOMAIN cache \subseteq DOMAIN defs
    /\ \A n \in DOMAIN cache : cache[n] > rawLen
    /\ (status = "idle" /\ ret > 0 /\ callName \notin DOMAIN defs) =>
           \A n \in DOMAIN cache : cache[n] # ret

\* three resolutions are nested; one of them got the raw node of a name in
\* progress and one got {} for an unknown name
C30_Witness ==
    /\ status = "running"
    /\ Len(stack) = 3
    /\ \E a \in GotByActive : a \in 1..rawLen
    /\ 0 \in GotByActive

\* an outermost call has returned a result that merged a raw node of a cycle,
\* after a call for an unknown name on the same cache
C30_WitnessReturned ==
    /\ status = "idle"
    /\ ret > 0
    /\ callName \in DOMAIN cache
    /\ \E n \in DOMAIN merged : \E i \in 1..Len(merged[n]) : merged[n][i] \in 1..rawLen
    /\ resolving = {}

====
